---- MODULE Spec2Model ----
(***************************************************************************)
(* Model of the missionary board cache (src/src/mboard/missionaries.py)    *)
(* and of the page that reads it (src/src/mboard/slides_page.py).          *)
(*                                                                         *)
(* Text that the code takes apart (names, date strings, file names) is a   *)
(* sequence of one-character strings; text that the code only copies or    *)
(* compares (mission, home unit, exception messages) is a TLA+ string.     *)
(* A Python value that may be missing (dict.get -> None) is <<>> when      *)
(* missing and <<v>> when present.                                         *)
(***************************************************************************)
EXTENDS Integers, Sequences, FiniteSets, TLC

\* ------------------------------------------------------------- bounds
\* The clock runs from InitialNow to MaxTime (minutes).
MaxTime == 6
\* Number of refresh() background tasks that may be in flight together.
NumTasks == 2
\* Largest offset and limit a page request passes to list_range.
MaxOffset == 4
MaxLimit == 3
\* Longest stored list that list_range is called on.
MaxLen == 9
\* The greatest length of a list given to the couple merger.
MaxMerge == 3
\* How many consecutive first and last months of service are compared.
MaxMonths == 3
\* The longest photo directory given to the locator.
MaxDir == 2

\* ------------------------------------------------------ text helpers
Min(a, b) == IF a < b THEN a ELSE b
Max(a, b) == IF a > b THEN a ELSE b

\* The characters the model uses, in code point order (Python compares
\* strings by code point).
CodePoints ==
  << " ", "&", ",", "-", ".", "/",
     "0", "1", "2", "3", "4", "5", "6", "7", "8", "9",
     "A", "B", "C", "D", "E", "F", "J", "K", "M", "N", "O", "S",
     "a", "b", "c", "d", "e", "g", "h", "i", "j", "l", "n", "o", "p", "r",
     "s", "t", "u", "v", "x", "y" >>

CharCode(c) == CHOOSE i \in 1..Len(CodePoints) : CodePoints[i] = c

\* s < t for Python str: lexicographic by code point.
RECURSIVE StrLess(_, _)
StrLess(s, t) ==
  IF t = <<>> THEN FALSE
  ELSE IF s = <<>> THEN TRUE
  ELSE IF Head(s) = Head(t) THEN StrLess(Tail(s), Tail(t))
  ELSE CharCode(Head(s)) < CharCode(Head(t))

\* s.startswith(p)
StartsWith(s, p) == Len(s) >= Len(p) /\ SubSeq(s, 1, Len(p)) = p

\* p in s (substring test)
Contains(s, p) == \E i \in 0..(Len(s) - Len(p)) : SubSeq(s, i + 1, i + Len(p)) = p

\* str.split(sep) with an explicit, non-empty separator: every occurrence
\* splits, empty pieces are kept.
RECURSIVE SplitAcc(_, _, _)
SplitAcc(s, sep, cur) ==
  IF s = <<>> THEN <<cur>>
  ELSE IF StartsWith(s, sep)
       THEN <<cur>> \o SplitAcc(SubSeq(s, Len(sep) + 1, Len(s)), sep, <<>>)
       ELSE SplitAcc(Tail(s), sep, Append(cur, Head(s)))

Split(s, sep) == SplitAcc(s, sep, <<>>)

\* str.split() without separator: split on runs of whitespace, no empty
\* pieces.
RECURSIVE SplitWsAcc(_, _)
SplitWsAcc(s, cur) ==
  IF s = <<>> THEN (IF cur = <<>> THEN <<>> ELSE <<cur>>)
  ELSE IF Head(s) = " "
       THEN (IF cur = <<>> THEN <<>> ELSE <<cur>>) \o SplitWsAcc(Tail(s), <<>>)
       ELSE SplitWsAcc(Tail(s), Append(cur, Head(s)))

SplitWs(s) == SplitWsAcc(s, <<>>)

\* sep.join(parts)
RECURSIVE Join(_, _)
Join(sep, parts) ==
  IF parts = <<>> THEN <<>>
  ELSE IF Len(parts) = 1 THEN parts[1]
  ELSE parts[1] \o sep \o Join(sep, Tail(parts))

\* seq[::-1]
RECURSIVE Reverse(_)
Reverse(s) == IF s = <<>> THEN <<>> ELSE Append(Reverse(Tail(s)), Head(s))

\* str(n) for an int n >= 0
Digits == << "0", "1", "2", "3", "4", "5", "6", "7", "8", "9" >>

RECURSIVE IntToStr(_)
IntToStr(n) ==
  IF n < 10 THEN << Digits[n + 1] >>
  ELSE Append(IntToStr(n \div 10), Digits[(n % 10) + 1])

\* seq[a:b] for a Python list and ints a, b (negative indices count from
\* the end, out-of-range indices are clamped).
SliceIndex(n, i) == IF i < 0 THEN Max(n + i, 0) ELSE Min(i, n)

PySlice(s, a, b) ==
  SubSeq(s, SliceIndex(Len(s), a) + 1, SliceIndex(Len(s), b))

\* ------------------------------------------------------- data model
\* Python None where the code compares a value against strings only.
NoneVal == "None"

\* dataclass Missionary with its defaults.
Missionary(id, name, sort_name, gender, senior, mission, dates_serving, home_unit, image_path) ==
  [ id |-> id, name |-> name, sort_name |-> sort_name, gender |-> gender,
    couple |-> FALSE, senior |-> senior, mission |-> mission,
    dates_serving |-> dates_serving, home_unit |-> home_unit,
    image_path |-> image_path, photo_url |-> <<>> ]

\* Values of the key-value store, tagged with their Python type. A value
\* that the decoder cannot rebuild (Database._object_hook raises
\* ValueError) has type "undecodable".
ListVal(l) == [type |-> "list", val |-> l]
DatetimeVal(t) == [type |-> "datetime", val |-> t]
StrVal(s) == [type |-> "str", val |-> s]
IntVal(n) == [type |-> "int", val |-> n]
Undecodable == [type |-> "undecodable", val |-> 0]

\* Results of a computation that may raise.
Ok(v) == [ok |-> TRUE, val |-> v]
Raise(kind, msg) == [ok |-> FALSE, exc |-> [kind |-> kind, msg |-> msg]]

\* A store write that would keep, before a new list, the stored records
\* whose ids the new list does not have.
DbSetKeeping(d, k, v) ==
  IF k = "missionaries" /\ k \in DOMAIN d /\ v.type = "list" /\ d[k].type = "list"
  THEN (k :> [type |-> "list",
              val |-> SelectSeq(d[k].val,
                                LAMBDA r : \A i \in 1..Len(v.val) : v.val[i].id # r.id)
                      \o v.val]) @@ d
  ELSE (k :> v) @@ d

\* db[key] = value and db.pop(key, None) on a store d.
DbSet(d, k, v) == (k :> v) @@ d
DbPop(d, k) == [x \in (DOMAIN d) \ {k} |-> d[x]] @@ <<>>
\* db.get(key, default), the decoded value.
DbGet(d, k, default) == IF k \in DOMAIN d THEN d[k] ELSE default

\* ----------------------------------------------------- Photo Locator
\* A pattern without the dot after the id: "*-{id}*".
GlobMatchPrefix(filename, missionary_id) ==
  Contains(filename, <<"-">> \o IntToStr(missionary_id))

\* fnmatch of a file name against the pattern "*-{id}.*": some "-{id}."
\* occurs in the name.
GlobMatch(filename, missionary_id) ==
  Contains(filename, <<"-">> \o IntToStr(missionary_id) \o <<".">>)

\* Missionaries._find_photo: the first directory entry that matches, or "".
\* dir is the directory listing in the order scandir yields it.
_find_photo(dir, missionary_id) ==
  IF \E i \in 1..Len(dir) : GlobMatch(dir[i], missionary_id)
  THEN dir[CHOOSE i \in 1..Len(dir) :
             /\ GlobMatch(dir[i], missionary_id)
             /\ \A j \in 1..(i - 1) : ~GlobMatch(dir[j], missionary_id)]
  ELSE <<>>

PhotosPrefix == <<"/", "p", "h", "o", "t", "o", "s", "/">>
CouplePng == <<"/", "s", "t", "a", "t", "i", "c", "/",
               "c", "o", "u", "p", "l", "e", ".", "p", "n", "g">>
SisterPng == <<"/", "s", "t", "a", "t", "i", "c", "/",
               "s", "i", "s", "t", "e", "r", ".", "p", "n", "g">>
ElderPng == <<"/", "s", "t", "a", "t", "i", "c", "/",
              "e", "l", "d", "e", "r", ".", "p", "n", "g">>

\* A URL that would not know couples: the placeholder by gender alone.
PhotoUrlByGender(missionary, image_path) ==
  IF image_path # <<>> THEN PhotosPrefix \o image_path
  ELSE IF missionary.gender = "FEMALE" THEN SisterPng
  ELSE ElderPng

\* The final photo URL of one record (lines 137-144).
PhotoUrl(missionary, image_path) ==
  IF image_path # <<>> THEN PhotosPrefix \o image_path
  ELSE IF missionary.couple THEN CouplePng
  ELSE IF missionary.gender = "FEMALE" THEN SisterPng
  ELSE ElderPng

\* A loop body that would look for a photo only where the record has none
\* and drop the stored path otherwise.
RefreshPhotoAlternating(missionary, dir) ==
  [missionary EXCEPT
     !.image_path = IF missionary.image_path = <<>>
                    THEN _find_photo(dir, missionary.id) ELSE <<>>,
     !.photo_url = PhotoUrl(missionary,
                            IF missionary.image_path = <<>>
                            THEN _find_photo(dir, missionary.id) ELSE <<>>)]

\* The loop body of _photo_refresh on one record.
RefreshPhotoOf(missionary, dir) ==
  [missionary EXCEPT !.image_path = _find_photo(dir, missionary.id),
                     !.photo_url = PhotoUrl(missionary, _find_photo(dir, missionary.id))]

\* A photo refresh that would write the list back in reverse order.
PhotoRefreshReversing(d, dir, io_error) ==
  LET stored == DbGet(d, "missionaries", ListVal(<<>>)) IN
  IF stored.type # "list" \/ io_error THEN Raise("OSError", "")
  ELSE Ok(DbSet(d, "missionaries",
                ListVal(Reverse([i \in 1..Len(stored.val) |->
                                   RefreshPhotoOf(stored.val[i], dir)] \o <<>>))))

\* A photo refresh that would also stamp the time of the refresh.
StampingPhotoRefresh(d, dir, io_error) ==
  Ok(DbSet(DbSet(d, "missionaries", DbGet(d, "missionaries", ListVal(<<>>))),
           "last_refresh", DatetimeVal(0)))

\* Missionaries._photo_refresh on store d: the store after it, or the
\* exception it raises. io_error: scanning the photo directory or writing
\* the store fails with an OSError.
_photo_refresh(d, dir, io_error) ==
  LET stored == DbGet(d, "missionaries", ListVal(<<>>)) IN
  IF stored.type = "undecodable"
    THEN Raise("ValueError", "Couldn't deserialize class mboard.missionaries.Missionary")
  ELSE IF stored.type = "int"
    THEN Raise("TypeError", "'int' object is not iterable")
  ELSE IF stored.type = "str"
    THEN Raise("AttributeError", "'str' object has no attribute 'id'")
  ELSE IF io_error
    THEN Raise("OSError", "[Errno 5] Input/output error")
  ELSE Ok(DbSet(d, "missionaries",
                ListVal([i \in 1..Len(stored.val) |->
                           RefreshPhotoOf(stored.val[i], dir)] \o <<>>)))

\* ------------------------------------------------------- Cache Policy
REFRESH_INTERVAL == 2
\* datetime.min (0001-01-01T00:00) in minutes; minute 0 of the model is
\* 2026-01-01T00:00 UTC.
DatetimeMin == -1065047040

\* The check with "at least the interval" where the code has "more than
\* the interval".
NeedsRefreshAtInterval(d, t) ==
  LET stored == DbGet(d, "last_refresh", DatetimeVal(DatetimeMin)) IN
  IF stored.type # "datetime" THEN Raise("TypeError", "")
  ELSE Ok(t - stored.val >= REFRESH_INTERVAL)

\* Missionaries._needs_refresh at time t on store d; raises when the
\* stored value is no datetime.
_needs_refresh(d, t) ==
  LET stored == DbGet(d, "last_refresh", DatetimeVal(DatetimeMin)) IN
  IF stored.type = "undecodable"
    THEN Raise("ValueError", "Couldn't deserialize datetime")
  ELSE IF stored.type = "str"
    THEN Raise("TypeError", "str.replace() takes no keyword arguments")
  ELSE IF stored.type # "datetime"
    THEN Raise("AttributeError", "object has no attribute 'replace'")
  ELSE Ok(t - stored.val > REFRESH_INTERVAL)

\* ------------------------------------------------------- Listing API
\* The filters a caller may pass as filter_; "none" is the default None.
ApplyFilter(filter_, m) ==
  IF filter_ = "none" THEN TRUE ELSE m.couple

\* A comprehension that would not apply the filter.
Unfiltered(lst, filter_) == lst

\* [m for m in lst if filter_(m)]
RECURSIVE Filtered(_, _)
Filtered(lst, filter_) ==
  IF lst = <<>> THEN <<>>
  ELSE (IF ApplyFilter(filter_, Head(lst)) THEN <<Head(lst)>> ELSE <<>>)
       \o Filtered(Tail(lst), filter_)

\* A next offset that would never wrap.
NextOffsetNoWrap(offset, limit, length) == offset + limit

\* A next offset that would go on up to the length itself.
NextOffsetUpToLength(offset, limit, length) ==
  IF offset + limit <= length THEN offset + limit ELSE 0

\* Line 101: the offset of the next range.
NextOffset(offset, limit, length) ==
  IF offset + limit < length THEN offset + limit ELSE 0

\* Missionaries.list_range: <<slice, next_offset>>, or the exception.
\* Iterating a stored str yields its characters, which the default filter
\* accepts; any other filter reads an attribute of each element.
list_range(d, offset, limit, filter_) ==
  LET stored == DbGet(d, "missionaries", ListVal(<<>>)) IN
  IF stored.type \in {"undecodable", "int"}
    THEN Ok(<< <<>>, 0 >>)
  ELSE IF stored.type = "str" /\ filter_ # "none"
    THEN Raise("AttributeError", "'str' object has no attribute 'couple'")
  ELSE LET missionaries == IF stored.type = "str" THEN stored.val
                           ELSE Filtered(stored.val, filter_)
       IN Ok(<< PySlice(missionaries, offset, offset + limit),
                NextOffset(offset, limit, Len(missionaries)) >>)

\* A getter that would always report that there is no error.
NoRefreshError(d) == ""

\* Missionaries.get_refresh_error
get_refresh_error(d) == DbGet(d, "refresh_error", StrVal("")).val

\* ------------------------------------------------------ calendar
IsLeap(y) == (y % 4 = 0 /\ y % 100 # 0) \/ y % 400 = 0

DaysInMonth(y, m) ==
  IF m = 2 THEN (IF IsLeap(y) THEN 29 ELSE 28)
  ELSE IF m \in {4, 6, 9, 11} THEN 30 ELSE 31

RECURSIVE DaysBeforeMonth(_, _)
DaysBeforeMonth(y, m) ==
  IF m = 1 THEN 0 ELSE DaysBeforeMonth(y, m - 1) + DaysInMonth(y, m - 1)

\* date.toordinal(): day 1 is 0001-01-01.
Ordinal(y, m, d) ==
  (y - 1) * 365 + ((y - 1) \div 4) - ((y - 1) \div 100) + ((y - 1) \div 400)
  + DaysBeforeMonth(y, m) + d

IsDigit(c) == \E i \in 1..Len(Digits) : Digits[i] = c
DigitVal(c) == (CHOOSE i \in 1..Len(Digits) : Digits[i] = c) - 1

RECURSIVE StrToInt(_)
StrToInt(s) ==
  IF s = <<>> THEN 0
  ELSE StrToInt(SubSeq(s, 1, Len(s) - 1)) * 10 + DigitVal(s[Len(s)])

AllDigits(s) == \A i \in 1..Len(s) : IsDigit(s[i])

\* datetime.strptime(s, "%Y%m%d") for an eight-character s or an s with a
\* character that is no digit (the raw dates the model feeds it): the date,
\* or ValueError.
StrptimeYmd(s) ==
  IF Len(s) = 8 /\ AllDigits(s)
  THEN LET y == StrToInt(SubSeq(s, 1, 4))
           m == StrToInt(SubSeq(s, 5, 6))
           d == StrToInt(SubSeq(s, 7, 8))
       IN IF y >= 1 /\ m \in 1..12 /\ d >= 1 /\ d <= DaysInMonth(y, m)
          THEN Ok([y |-> y, m |-> m, d |-> d])
          ELSE Raise("ValueError", "time data does not match format '%Y%m%d'")
  ELSE Raise("ValueError", "time data does not match format '%Y%m%d'")

MonthAbbr ==
  << <<"J","a","n">>, <<"F","e","b">>, <<"M","a","r">>, <<"A","p","r">>,
     <<"M","a","y">>, <<"J","u","n">>, <<"J","u","l">>, <<"A","u","g">>,
     <<"S","e","p">>, <<"O","c","t">>, <<"N","o","v">>, <<"D","e","c">> >>

\* date.strftime("%b %Y") for a year of four digits: "Aug 2023".
StrftimeMonYear(date) == MonthAbbr[date.m] \o <<" ">> \o IntToStr(date.y)

\* datetime.strptime(s, "%b %Y") on text of the shape strftime produces:
\* the first day of that month, or ValueError.
StrptimeMonYear(s) ==
  IF /\ Len(s) = 8
     /\ \E m \in 1..12 : MonthAbbr[m] = SubSeq(s, 1, 3)
     /\ s[4] = " "
     /\ AllDigits(SubSeq(s, 5, 8))
     /\ StrToInt(SubSeq(s, 5, 8)) >= 1
  THEN Ok([y |-> StrToInt(SubSeq(s, 5, 8)),
           m |-> CHOOSE m \in 1..12 : MonthAbbr[m] = SubSeq(s, 1, 3),
           d |-> 1])
  ELSE Raise("ValueError", "time data does not match format '%b %Y'")

OrdinalOf(date) == Ordinal(date.y, date.m, date.d)

\* The calendar day on which the model's clock runs (datetime.now(UTC)).
Today == [y |-> 2026, m |-> 1, d |-> 1]

\* -------------------------------------------------- Record Normalizer
SENIOR_AGE == 40

\* A raw record of the roster source (a dict). A key that dict.get finds
\* missing is <<>>, a present value v is <<v>>.
RawRecord(name, status, gender, id, mission, home_unit, start, end, senior, birth) ==
  [ missionaryName |-> name, status |-> status, gender |-> gender,
    missionaryIndividualId |-> id, missionName |-> mission,
    missionaryHomeUnitName |-> home_unit, startDate |-> start,
    endDate |-> end, seniorMissionary |-> senior, birthDate |-> birth ]

\* dict.get(key, default)
Get(opt, default) == IF opt = <<>> THEN default ELSE opt[1]

\* Missionaries._filter
_filter(missionary_data) ==
  IF ~(missionary_data.missionaryName # <<>>
       /\ missionary_data.missionaryName[1] # <<>>)
  THEN FALSE
  ELSE missionary_data.status = <<"SERVING">>

Elder == <<"E", "l", "d", "e", "r", " ">>
Sister == <<"S", "i", "s", "t", "e", "r", " ">>

\* Lines 181-188: the display name.
DisplayName(sort_name, gender) ==
  LET display_name == Join(<<" ">>, Reverse(Split(sort_name, <<",", " ">>))) IN
  IF gender = "FEMALE" THEN Sister \o display_name
  ELSE IF gender = "MALE" THEN Elder \o display_name
  ELSE display_name

\* Lines 191-200: one of startDate and endDate as "Aug 2023"; "" when the
\* raw value is missing or empty; ValueError when it does not parse.
MonthYearOf(opt) ==
  IF opt = <<>> \/ opt[1] = <<>> THEN Ok(<<>>)
  ELSE LET parsed == StrptimeYmd(opt[1]) IN
       IF parsed.ok THEN Ok(StrftimeMonYear(parsed.val)) ELSE parsed

\* Line 201
DatesServing(start, end) ==
  IF start # <<>> /\ end # <<>> THEN start \o <<" ", "-", " ">> \o end ELSE <<>>

\* Lines 204-213: the senior flag, or ValueError from the birth date.
SeniorOf(missionary_data, today) ==
  LET senior == missionary_data.seniorMissionary
      birth == missionary_data.birthDate
  IN IF senior # <<>> /\ senior[1] = TRUE THEN Ok(TRUE)
     ELSE IF birth = <<>> \/ birth[1] = <<>> THEN Ok(FALSE)
     ELSE LET parsed == StrptimeYmd(birth[1]) IN
          IF parsed.ok
          THEN Ok(((OrdinalOf(today) - OrdinalOf(parsed.val)) \div 365) > SENIOR_AGE)
          ELSE parsed

\* Missionaries._create_missionary: the record, or the exception raised.
_create_missionary(missionary_data, dir, today) ==
  LET sort_name == Get(missionary_data.missionaryName, <<>>)
      gender == Get(missionary_data.gender, NoneVal)
      start == MonthYearOf(missionary_data.startDate)
      end == MonthYearOf(missionary_data.endDate)
      senior == SeniorOf(missionary_data, today)
      missionary_id == Get(missionary_data.missionaryIndividualId, 0)
  IN IF ~start.ok THEN start
     ELSE IF ~end.ok THEN end
     ELSE IF ~senior.ok THEN senior
     ELSE Ok(Missionary(missionary_id,
                        DisplayName(sort_name, gender),
                        sort_name,
                        gender,
                        senior.val,
                        Get(missionary_data.missionName, ""),
                        DatesServing(start.val, end.val),
                        Get(missionary_data.missionaryHomeUnitName, ""),
                        _find_photo(dir, missionary_id)))

\* [self._create_missionary(d) for d in data]: the list, or the first
\* exception.
RECURSIVE CreateAll(_, _, _)
CreateAll(data, dir, today) ==
  IF data = <<>> THEN Ok(<<>>)
  ELSE LET first == _create_missionary(Head(data), dir, today) IN
       IF ~first.ok THEN first
       ELSE LET rest == CreateAll(Tail(data), dir, today) IN
            IF ~rest.ok THEN rest ELSE Ok(<<first.val>> \o rest.val)

\* [d for d in data if self._filter(d)]
RECURSIVE FilterRaw(_)
FilterRaw(data) ==
  IF data = <<>> THEN <<>>
  ELSE (IF _filter(Head(data)) THEN <<Head(data)>> ELSE <<>>) \o FilterRaw(Tail(data))

\* The file instance/extra/missionaries.json: missing, or present with
\* text that json.load parses to a list of raw records or rejects.
NoExtraFile == [exists |-> FALSE, valid |-> FALSE, data |-> <<>>]
ExtraFile(data) == [exists |-> TRUE, valid |-> TRUE, data |-> data]
BadExtraFile == [exists |-> TRUE, valid |-> FALSE, data |-> <<>>]

\* A loader that would never find extra records.
NoExtraMissionaries(file, dir, today) == <<>>

\* Missionaries._extra_missionaries: every failure yields [].
_extra_missionaries(file, dir, today) ==
  IF ~file.exists THEN <<>>
  ELSE IF ~file.valid THEN <<>>
  ELSE LET extra_missionaries == CreateAll(file.data, dir, today) IN
       IF extra_missionaries.ok THEN extra_missionaries.val ELSE <<>>

\* ------------------------------------------------------ Couple Merger
\* Missionaries._last_name
_last_name(name) ==
  LET split_name == SplitWs(name) IN
  IF split_name # <<>> THEN split_name[Len(split_name)] ELSE <<>>

\* Missionaries._omit_last_name
_omit_last_name(name) ==
  LET split_name == SplitWs(name) IN
  Join(<<" ">>, SubSeq(split_name, 1, Len(split_name) - 1))

about_a_month == 32

\* A difference taken with its sign.
Signed(n) == n

\* abs() of a difference in days.
Abs(n) == IF n < 0 THEN -n ELSE n

\* Missionaries._dates_serving_nearly_equal: the boolean, or the ValueError
\* of the tuple unpacking or of strptime.
_dates_serving_nearly_equal(ds1, ds2) ==
  IF ds1 = ds2 THEN Ok(TRUE)
  ELSE
  LET parts1 == Split(ds1, <<" ", "-", " ">>)
      parts2 == Split(ds2, <<" ", "-", " ">>)
  IN
  IF Len(parts1) < 2
    THEN Raise("ValueError", "not enough values to unpack (expected 2, got 1)")
  ELSE IF Len(parts1) > 2
    THEN Raise("ValueError", "too many values to unpack (expected 2)")
  ELSE IF Len(parts2) < 2
    THEN Raise("ValueError", "not enough values to unpack (expected 2, got 1)")
  ELSE IF Len(parts2) > 2
    THEN Raise("ValueError", "too many values to unpack (expected 2)")
  ELSE
  LET start1 == StrptimeMonYear(parts1[1])
      start2 == StrptimeMonYear(parts2[1])
      end1 == StrptimeMonYear(parts1[2])
      end2 == StrptimeMonYear(parts2[2])
  IN
  IF ~start1.ok THEN start1
  ELSE IF ~start2.ok THEN start2
  ELSE IF ~end1.ok THEN end1
  ELSE IF ~end2.ok THEN end2
  ELSE IF /\ start1.val = start2.val
          /\ Abs(OrdinalOf(end1.val) - OrdinalOf(end2.val)) <= about_a_month
    THEN Ok(TRUE)
  ELSE Ok(/\ end1.val = end2.val
          /\ Abs(OrdinalOf(start1.val) - OrdinalOf(start2.val)) <= about_a_month)

\* Lines 250-265: the index of the first companion of `missionary` in the
\* list, <<>> when there is none, or the exception of the date comparison.
RECURSIVE FindCompanion(_, _, _)
FindCompanion(missionaries, missionary, j) ==
  IF j > Len(missionaries) THEN Ok(<<>>)
  ELSE
  LET m == missionaries[j] IN
  IF /\ m.senior
     /\ m.id # missionary.id
     /\ m.gender # missionary.gender
     /\ m.mission = missionary.mission
     /\ m.home_unit = missionary.home_unit
     /\ _last_name(m.name) = _last_name(m.name)
  THEN LET nearly == _dates_serving_nearly_equal(m.dates_serving,
                                                 missionary.dates_serving) IN
       IF ~nearly.ok THEN nearly
       ELSE IF nearly.val THEN Ok(<<j>>)
       ELSE FindCompanion(missionaries, missionary, j + 1)
  ELSE FindCompanion(missionaries, missionary, j + 1)

Ampersand == <<" ", "&", " ">>

\* A merge in which the record that found its companion always keeps its
\* own fields.
MergedKeepingOwnFields(missionary, companion) ==
  IF missionary.gender = "MALE"
  THEN [missionary EXCEPT
          !.name = _omit_last_name(missionary.name) \o Ampersand \o companion.name,
          !.couple = TRUE]
  ELSE [missionary EXCEPT
          !.name = _omit_last_name(companion.name) \o Ampersand \o missionary.name,
          !.couple = TRUE]

\* Lines 267-279: the record that stays when `missionary` found `companion`.
MergedWith(missionary, companion) ==
  IF missionary.gender = "MALE"
  THEN [missionary EXCEPT
          !.name = _omit_last_name(missionary.name) \o Ampersand \o companion.name,
          !.couple = TRUE]
  ELSE [companion EXCEPT
          !.name = _omit_last_name(companion.name) \o Ampersand \o missionary.name,
          !.couple = TRUE]

\* The loop of _merge_couple_missionaries from index i on. The records are
\* objects changed in place, so a merged record replaces its original in
\* the list that later companion searches scan.
RECURSIVE MergeLoop(_, _, _, _)
MergeLoop(missionaries, i, merged_ids, result_missionaries) ==
  IF i > Len(missionaries) THEN Ok(result_missionaries)
  ELSE
  LET missionary == missionaries[i] IN
  IF missionary.id \in merged_ids
    THEN MergeLoop(missionaries, i + 1, merged_ids, result_missionaries)
  ELSE IF ~missionary.senior
    THEN MergeLoop(missionaries, i + 1, merged_ids,
                   Append(result_missionaries, missionary))
  ELSE
  LET found == FindCompanion(missionaries, missionary, 1) IN
  IF ~found.ok THEN found
  ELSE IF found.val = <<>>
    THEN MergeLoop(missionaries, i + 1, merged_ids,
                   Append(result_missionaries, missionary))
  ELSE
  LET companion == missionaries[found.val[1]]
      merged == MergedWith(missionary, companion)
  IN MergeLoop([missionaries EXCEPT ![i] = merged], i + 1,
               merged_ids \cup {companion.id},
               Append(result_missionaries, merged))

\* Missionaries._merge_couple_missionaries
_merge_couple_missionaries(missionaries) ==
  MergeLoop(missionaries, 1, {}, <<>>)

\* ------------------------------------------------------------- sorting
\* A sync that would store the list in the order of the merge.
Unsorted(missionaries) == missionaries

\* sorted(missionaries, key=lambda m: m.sort_name): stable.
RECURSIVE InsertSorted(_, _)
InsertSorted(sorted, m) ==
  IF sorted = <<>> THEN <<m>>
  ELSE IF StrLess(m.sort_name, Head(sorted).sort_name) THEN <<m>> \o sorted
  ELSE <<Head(sorted)>> \o InsertSorted(Tail(sorted), m)

RECURSIVE SortedBySortName(_)
SortedBySortName(missionaries) ==
  IF missionaries = <<>> THEN <<>>
  ELSE InsertSorted(SortedBySortName(SubSeq(missionaries, 1, Len(missionaries) - 1)),
                    missionaries[Len(missionaries)])

\* --------------------------------------------------- Sync Orchestrator
\* A failure of one step of the cycle.
Failed(step, raised) == [ok |-> FALSE, exc |-> raised.exc, step |-> step]

\* One step of the cycle and the steps after it: an exception of the step
\* ends the cycle, its value goes on to the rest.
Then(r, step, Rest(_)) == IF r.ok THEN Rest(r.val) ELSE Failed(step, r)

\* Missionaries._sync_missionaries up to its store write (lines 152-175):
\* the sorted list to persist, or the exception and the step that raised.
\* fetched is the outcome of lcr_session.get_json.
_sync_missionaries(fetched, file, dir, today) ==
  IF ~fetched.ok THEN Failed("fetch", fetched)
  ELSE Then(CreateAll(FilterRaw(fetched.val), dir, today), "normalize",
         LAMBDA created :
           Then(_merge_couple_missionaries(
                  created \o _extra_missionaries(file, dir, today)), "merge",
                LAMBDA merged : Ok(SortedBySortName(merged))))

\* The message of the exception without its kind: str(e).
MessageOnly(exc) == exc.msg

\* f"{type(e).__name__}: {e}" (line 72)
ErrorString(exc) == exc.kind \o ": " \o exc.msg

\* ------------------------------------------------- the environment
\* Raw dates "YYYYMMDD".
D20240110 == <<"2", "0", "2", "4", "0", "1", "1", "0">>
D20251220 == <<"2", "0", "2", "5", "1", "2", "2", "0">>
D20260105 == <<"2", "0", "2", "6", "0", "1", "0", "5">>
D19600101 == <<"1", "9", "6", "0", "0", "1", "0", "1">>
D20050101 == <<"2", "0", "0", "5", "0", "1", "0", "1">>
NotADate == <<"s", "o", "o", "n">>

\* Records the roster source may return.
YoungElder ==
  RawRecord(<< <<"B", ",", " ", "A">> >>, <<"SERVING">>, <<"MALE">>, <<1>>,
            <<"Mission 1">>, <<"1st Ward">>, <<D20240110>>, <<D20260105>>,
            <<>>, <<D20050101>>)
SeniorElder ==
  RawRecord(<< <<"S", ",", " ", "J">> >>, <<"SERVING">>, <<"MALE">>, <<2>>,
            <<"Mission 2">>, <<"1st Ward">>, <<D20240110>>, <<D20251220>>,
            <<TRUE>>, <<>>)
SeniorSister ==
  RawRecord(<< <<"S", ",", " ", "K">> >>, <<"SERVING">>, <<"FEMALE">>, <<12>>,
            <<"Mission 2">>, <<"1st Ward">>, <<D20240110>>, <<D20260105>>,
            <<>>, <<D19600101>>)
Released ==
  RawRecord(<< <<"D", ",", " ", "E">> >>, <<"RELEASED">>, <<"FEMALE">>, <<4>>,
            <<"Mission 1">>, <<"1st Ward">>, <<D20240110>>, <<D20251220>>,
            <<>>, <<>>)
BadStartDate ==
  RawRecord(<< <<"C", ",", " ", "D">> >>, <<"SERVING">>, <<"MALE">>, <<5>>,
            <<"Mission 1">>, <<"1st Ward">>, <<NotADate>>, <<D20251220>>,
            <<>>, <<>>)
SeniorNoDates ==
  RawRecord(<< <<"N", ",", " ", "O">> >>, <<"SERVING">>, <<"FEMALE">>, <<3>>,
            <<"Mission 2">>, <<"1st Ward">>, <<>>, <<>>,
            <<TRUE>>, <<>>)
PartTime ==
  RawRecord(<< <<"A", ",", " ", "F">> >>, <<>>, <<"FEMALE">>, <<>>,
            <<"Mission 3">>, <<"2nd Ward">>, <<D20240110>>, <<D20251220>>,
            <<>>, <<>>)

\* What one call of lcr_session.get_json may yield: a list of raw records,
\* or an exception.
FetchOutcomes ==
  { Ok(<<SeniorSister, YoungElder, SeniorElder>>),
    Ok(<<YoungElder, Released>>),
    Ok(<<YoungElder, BadStartDate>>),
    Ok(<<SeniorElder, SeniorNoDates>>),
    Raise("ConnectError", "All connection attempts failed"),
    Raise("TimeoutError", "") }

\* The extra-records file.
ExtraFiles ==
  { NoExtraFile, ExtraFile(<<PartTime>>), ExtraFile(<<PartTime, BadStartDate>>),
    BadExtraFile }

\* File names of the photo directory.
Photo12 == <<"s", "-", "1", "2", ".", "j", "p", "g">>
Photo1 == <<"b", "-", "1", ".", "p", "n", "g">>
\* Listings of the photo directory.
PhotoDirs == { <<>>, <<Photo12, Photo1>> }

\* A roster written by an earlier run.
SisterJones ==
  [ Missionary(0, <<"S", "i", "s", "t", "e", "r", " ", "J">>,
               <<"J", ",", " ", "S">>, "FEMALE", FALSE, "", <<>>, "", <<>>)
    EXCEPT !.photo_url = SisterPng ]
ElderOne ==
  [ Missionary(1, <<"E", "l", "d", "e", "r", " ", "A", " ", "B">>,
               <<"B", ",", " ", "A">>, "MALE", FALSE, "Mission 1", <<>>,
               "1st Ward", <<>>)
    EXCEPT !.photo_url = ElderPng ]

\* The first instant of the model's clock.
InitialNow == REFRESH_INTERVAL + 1

\* The list of that run, in the order of sort_name as the program writes it.
OldRoster == ListVal(<<ElderOne, SisterJones>>)
OldError == StrVal("HTTPStatusError: 401 Unauthorized")

\* A store with the given keys.
Store(roster, stamp, error) ==
  [k \in (IF roster # <<>> THEN {"missionaries"} ELSE {})
         \cup (IF stamp # <<>> THEN {"last_refresh"} ELSE {})
         \cup (IF error # <<>> THEN {"refresh_error"} ELSE {}) |->
     IF k = "missionaries" THEN roster[1]
     ELSE IF k = "last_refresh" THEN stamp[1] ELSE error[1]] @@ <<>>

\* What the store file may hold when the program starts: nothing; a roster
\* of an earlier run with its time stamp (older than the refresh interval,
\* exactly as old, or fresh) and perhaps an error; or values of another
\* shape than the program writes (a file of another version, or damaged).
InitialStores ==
  { Store(<<>>, <<>>, <<>>),
    Store(<<OldRoster>>, <<DatetimeVal(0)>>, <<>>),
    Store(<<OldRoster>>, <<DatetimeVal(1)>>, <<OldError>>),
    Store(<<OldRoster>>, <<DatetimeVal(InitialNow)>>, <<>>),
    Store(<<OldRoster>>, <<>>, <<OldError>>),
    Store(<<IntVal(5)>>, <<DatetimeVal(InitialNow)>>, <<>>),
    Store(<<StrVal(<<"a", "b", "c">>)>>, <<DatetimeVal(InitialNow)>>, <<>>),
    Store(<<Undecodable>>, <<DatetimeVal(0)>>, <<>>),
    Store(<<OldRoster>>, <<StrVal("yesterday")>>, <<>>) }

\* ---------------------------------------------------------- the state
VARIABLES
  db,          \* the key-value store: a function from its present keys
  now,         \* the clock, in minutes
  photos_dir,  \* the listing of the photo directory
  extra_file,  \* the extra-records file, as it is while the program runs
  pc,          \* per refresh() task: "idle", "queued" (the background task of a
               \* page that has been built) or "fetch" (awaiting get_json)
  last,        \* what the latest step of a refresh() call did
  lr,          \* the latest call of list_range and what it returned
  walk,        \* a slideshow that follows next_offset from offset 0
  shown,       \* the latest call of get_refresh_error and what it returned
  given,       \* the arguments of a call of one of the pure functions
  answer,      \* what that call returned or raised
  session,     \* the browser session: <<>> or <<user>>
  resp         \* what the latest page request was answered with

vars == <<db, now, photos_dir, extra_file, pc, last, lr, walk, shown, given, answer,
          session, resp>>
repo == <<db, now, photos_dir, extra_file, pc, last>>
listing == <<lr, walk, shown>>
pure == <<given, answer>>
web == <<session, resp>>

Tasks == 1..NumTasks

\* No refresh() step has run yet. got: what get_json yielded to the step,
\* <<>> for a step without one.
NoStep ==
  [due |-> "none", result |-> "none", failed |-> "none",
   fetched |-> FALSE, writes |-> <<>>, got |-> <<>>]

\* No call of list_range yet; no slideshow under way.
NoCall == [called |-> FALSE]
NoWalk == [walking |-> FALSE]

\* No arguments drawn and no pure function applied yet.
NoArgs == [fn |-> "none"]
NotRun == [run |-> FALSE]

Step(due, result, failed, fetched, writes) ==
  [due |-> due, result |-> result, failed |-> failed,
   fetched |-> fetched, writes |-> writes, got |-> <<>>]

Init ==
  /\ db \in InitialStores
  /\ now = InitialNow
  /\ photos_dir \in PhotoDirs
  /\ extra_file \in ExtraFiles
  /\ pc = [p \in Tasks |-> "idle"]
  /\ last = NoStep
  /\ lr = NoCall
  /\ walk = NoWalk
  /\ shown = NoCall
  /\ given = NoArgs
  /\ answer = NotRun
  /\ session = <<>>
  /\ resp = NoCall

\* _sync_missionaries for every outcome of the fetch and every state of the
\* files, computed once.
SyncResult ==
  [fetched \in FetchOutcomes, file \in ExtraFiles, dir \in PhotoDirs |->
     _sync_missionaries(fetched, file, dir, Today)]

\* An except block that would also stamp the time of the attempt.
StampingOnSyncError(d, exc) ==
  DbSet(DbSet(d, "refresh_error", StrVal(exc.kind \o ": " \o exc.msg)),
        "last_refresh", DatetimeVal(0))

\* An else block that would keep an earlier error.
ErrorKeepingOnSyncSuccess(d, t) == DbSet(d, "last_refresh", DatetimeVal(t))

\* The except block of refresh (lines 71-80).
OnSyncError(d, exc) == DbSet(d, "refresh_error", StrVal(ErrorString(exc)))

\* The else block of refresh (lines 81-83) at time t.
OnSyncSuccess(d, t) ==
  DbSet(DbPop(d, "refresh_error"), "last_refresh", DatetimeVal(t))

\* refresh() from its call, direct or as the queued background task of a
\* page, to its return or to its await of get_json (lines 64-69 and 152).
RefreshStart(p) ==
  /\ pc[p] \in {"idle", "queued"}
  /\ UNCHANGED <<now, photos_dir, extra_file, listing, pure, web>>
  /\ \E due \in {_needs_refresh(db, now)} :
       IF ~due.ok
       THEN /\ last' = Step("none", "raised", "check", FALSE, <<>>)
            /\ pc' = [pc EXCEPT ![p] = "idle"]
            /\ UNCHANGED db
       ELSE IF due.val
       THEN /\ pc' = [pc EXCEPT ![p] = "fetch"]
            /\ last' = Step("yes", "none", "none", TRUE, <<>>)
            /\ UNCHANGED db
       ELSE \E io_error \in BOOLEAN :
            \E photo \in {_photo_refresh(db, photos_dir, io_error)} :
              IF photo.ok
              THEN /\ db' = photo.val
                   /\ last' = Step("no", "returned", "none", FALSE,
                                   <<"missionaries">>)
                   /\ pc' = [pc EXCEPT ![p] = "idle"]
              ELSE /\ last' = Step("no", "raised", "photo", FALSE, <<>>)
                   /\ pc' = [pc EXCEPT ![p] = "idle"]
                   /\ UNCHANGED db

\* refresh() from the completion of get_json to its return (lines 152-176
\* and 70-83).
RefreshResume(p) ==
  /\ pc[p] = "fetch"
  /\ pc' = [pc EXCEPT ![p] = "idle"]
  /\ UNCHANGED <<now, photos_dir, extra_file, listing, pure, web>>
  /\ \E fetched \in FetchOutcomes :
     \E sync \in {SyncResult[fetched, extra_file, photos_dir]} :
       IF ~sync.ok
       THEN /\ db' = OnSyncError(db, sync.exc)
            /\ last' = [Step("yes", "returned", sync.step, TRUE,
                             <<"refresh_error">>)
                        EXCEPT !.got = <<fetched>>]
       ELSE \E io_error \in BOOLEAN :
            \E synced \in {DbSet(db, "missionaries", ListVal(sync.val))} :
            \E photo \in {_photo_refresh(synced, photos_dir, io_error)} :
              IF ~photo.ok
              THEN /\ db' = OnSyncError(synced, photo.exc)
                   /\ last' = [Step("yes", "returned", "photo", TRUE,
                                    <<"missionaries", "refresh_error">>)
                               EXCEPT !.got = <<fetched>>]
              ELSE /\ db' = OnSyncSuccess(photo.val, now)
                   /\ last' = [Step("yes", "returned", "none", TRUE,
                                    <<"missionaries", "missionaries",
                                      "pop refresh_error", "last_refresh">>)
                               EXCEPT !.got = <<fetched>>]

\* A clear that would leave the error of the last cycle.
ClearKeepingError(d) == DbPop(DbPop(d, "missionaries"), "last_refresh")

\* Missionaries.clear
clear(d) == DbPop(DbPop(DbPop(d, "missionaries"), "last_refresh"), "refresh_error")

\* A clear that would also cancel the refresh() calls suspended in their
\* fetch.
ClearCancelling ==
  /\ db' = clear(db)
  /\ last' = Step("none", "cleared", "none", FALSE,
                  <<"pop missionaries", "pop last_refresh", "pop refresh_error">>)
  /\ pc' = [p \in Tasks |-> IF pc[p] = "fetch" THEN "idle" ELSE pc[p]]
  /\ UNCHANGED <<now, photos_dir, extra_file, listing, pure, web>>

\* The three pops never raise (their default is None), also on a store
\* without the keys; no task is touched.
Clear ==
  /\ db' = clear(db)
  /\ last' = Step("none", "cleared", "none", FALSE,
                  <<"pop missionaries", "pop last_refresh", "pop refresh_error">>)
  /\ UNCHANGED <<now, photos_dir, extra_file, pc, listing, pure, web>>

\* A minute passes.
Tick ==
  /\ now < MaxTime
  /\ now' = now + 1
  /\ UNCHANGED <<db, photos_dir, extra_file, pc, last, listing, pure, web>>

\* Someone adds or removes photo files.
ChangePhotos ==
  /\ photos_dir' \in PhotoDirs \ {photos_dir}
  /\ UNCHANGED <<db, now, extra_file, pc, last, listing, pure, web>>

Next ==
  \/ \E p \in Tasks : RefreshStart(p)
  \/ \E p \in Tasks : RefreshResume(p)
  \/ Clear
  \/ Tick
  \/ ChangePhotos

Spec == Init /\ [][Next]_vars

\* ------------------------------------------------ the listing machine
\* list_range over a store that does not change: single calls with any
\* offset, limit and filter, and slideshows that start at offset 0 and pass
\* each returned next_offset to the next call.

\* A stored record; the even ones are couples.
Entry(i) ==
  [ Missionary(i, <<>>, <<>>, "MALE", FALSE, "", <<>>, "", <<>>)
    EXCEPT !.couple = (i % 2 = 0) ]

Roster(n) == [i \in 1..n |-> Entry(i)] \o <<>>

\* Stores to list: a list of each length, no list, and values of another
\* type than the program writes.
ListStores ==
  { Store(<<ListVal(Roster(n))>>, <<>>, <<>>) : n \in 0..MaxLen }
  \cup { Store(<<>>, <<>>, <<>>),
         Store(<<IntVal(5)>>, <<>>, <<>>),
         Store(<<StrVal(<<"a", "b", "c">>)>>, <<>>, <<>>),
         Store(<<Undecodable>>, <<>>, <<>>),
         Store(<<>>, <<>>, <<OldError>>),
         Store(<<ListVal(Roster(2))>>, <<DatetimeVal(0)>>, <<OldError>>) }

\* int(query_params[...]) accepts every integer.
Offsets == (0 - MaxOffset)..MaxOffset
Limits == (0 - MaxLimit)..MaxLimit
Filters == {"none", "couple"}

InitList ==
  /\ db \in ListStores
  /\ now = InitialNow
  /\ photos_dir = <<>>
  /\ extra_file = NoExtraFile
  /\ pc = [p \in Tasks |-> "idle"]
  /\ last = NoStep
  /\ lr = NoCall
  /\ walk = NoWalk
  /\ shown = NoCall
  /\ given = NoArgs
  /\ answer = NotRun
  /\ session = <<>>
  /\ resp = NoCall

\* One call of list_range on the store and its outcome.
Call(offset, limit, filter_) ==
  [called |-> TRUE, offset |-> offset, limit |-> limit, filter_ |-> filter_,
   result |-> list_range(db, offset, limit, filter_)]

\* A request with any offset, limit and filter; it is no part of a
\* slideshow under way.
ListRange ==
  /\ \E offset \in Offsets, limit \in Limits, filter_ \in Filters :
       lr' = Call(offset, limit, filter_)
  /\ walk' = NoWalk
  /\ UNCHANGED <<repo, shown, pure, web>>

\* A slideshow opens at offset 0 with some limit.
WalkStart ==
  /\ \E limit \in 0..MaxLimit :
       walk' = [walking |-> TRUE, limit |-> limit, offset |-> 0,
                visited |-> <<>>, returned |-> <<>>, done |-> FALSE]
  /\ lr' = NoCall
  /\ UNCHANGED <<repo, shown, pure, web>>

\* The slideshow requests its next page: list_range(offset, limit) with
\* the default filter; next_offset becomes the offset of the request after
\* it, until it is 0 again.
WalkStep ==
  /\ walk.walking
  /\ ~walk.done
  /\ LET call == Call(walk.offset, walk.limit, "none") IN
     /\ call.result.ok
     /\ lr' = call
     /\ walk' = [walk EXCEPT
                   !.visited = @ \o call.result.val[1],
                   !.returned = Append(@, call.result.val[2]),
                   !.offset = call.result.val[2],
                   !.done = (call.result.val[2] = 0)]
  /\ UNCHANGED <<repo, shown, pure, web>>

\* The page asks for the error of the last refresh (slides_page.py line 43).
GetRefreshError ==
  /\ shown' = [called |-> TRUE, result |-> get_refresh_error(db)]
  /\ UNCHANGED <<repo, lr, walk, pure, web>>

NextList == ListRange \/ WalkStart \/ WalkStep \/ GetRefreshError

SpecList == InitList /\ [][NextList]_vars

\* ------------------------------------------------- the merger machine
\* _merge_couple_missionaries and _dates_serving_nearly_equal applied to
\* arguments drawn from the sets below.

\* The first day of the month k months after `date`.
MonthAfter(date, k) ==
  LET n == date.y * 12 + (date.m - 1) + k IN
  [y |-> n \div 12, m |-> (n % 12) + 1, d |-> 1]

Jan2024 == [y |-> 2024, m |-> 1, d |-> 1]
Dec2025 == [y |-> 2025, m |-> 12, d |-> 1]

\* The text of dates_serving for a first and a last month (line 201).
RangeText(first, final) ==
  DatesServing(StrftimeMonYear(first), StrftimeMonYear(final))

\* First months and last months of service, and the ranges they make.
FirstMonths == { MonthAfter(Jan2024, k) : k \in 0..(MaxMonths - 1) }
FinalMonths == { MonthAfter(Dec2025, k) : k \in 0..(MaxMonths - 1) }
DateRanges == { RangeText(f, g) : f \in FirstMonths, g \in FinalMonths }

\* A normalized record as _create_missionary builds it.
Normalized(id, name, gender, senior, mission, home_unit, dates_serving) ==
  Missionary(id, name, <<>>, gender, senior, mission, dates_serving, home_unit, <<>>)

TwoYears == RangeText(Jan2024, Dec2025)
MonthLonger == RangeText(Jan2024, MonthAfter(Dec2025, 1))

\* A senior elder and the sisters and elders he may meet in a list: his
\* wife as the roster may give her (same dates; a month or two months
\* longer; no dates; another mission or home unit; not senior; his own id;
\* the placeholder id 0), a young elder with the placeholder id, a second
\* senior elder, a second senior sister, and a senior without gender.
Husband == Normalized(1, <<"E", "l", "d", "e", "r", " ", "J", " ", "S">>, "MALE", TRUE, "Mission 1", "1st Ward", TwoYears)
Wife == Normalized(2, <<"S", "i", "s", "t", "e", "r", " ", "K", " ", "S">>, "FEMALE", TRUE, "Mission 1", "1st Ward", TwoYears)
MergePool ==
  { Husband,
    Wife,
    [Wife EXCEPT !.dates_serving = MonthLonger],
    [Wife EXCEPT !.dates_serving = RangeText(Jan2024, MonthAfter(Dec2025, 2))],
    [Wife EXCEPT !.dates_serving = <<>>],
    [Wife EXCEPT !.mission = "Mission 2"],
    [Wife EXCEPT !.home_unit = "2nd Ward"],
    [Wife EXCEPT !.senior = FALSE],
    [Wife EXCEPT !.id = 1],
    [Wife EXCEPT !.id = 0],
    Normalized(0, <<"E", "l", "d", "e", "r", " ", "T", " ", "V">>, "MALE", FALSE, "Mission 3", "1st Ward", TwoYears),
    Normalized(3, <<"E", "l", "d", "e", "r", " ", "L", " ", "S">>, "MALE", TRUE, "Mission 1", "1st Ward", TwoYears),
    Normalized(5, <<"S", "i", "s", "t", "e", "r", " ", "M", " ", "S">>, "FEMALE", TRUE, "Mission 1", "1st Ward", TwoYears),
    Normalized(4, <<"P", " ", "S">>, NoneVal, TRUE, "Mission 1", "1st Ward", TwoYears) }

\* ------------------------------------------------- the church Session
\* church.py line 124.
max_retries == 3
\* How many loads of the user-info page the browser of the model can answer.
MaxLoads == 4

\* A user-info loop that would allow one more reload.
LoginRetryingOnceMore(script, count) ==
  [ok |-> \E i \in 1..(max_retries + 1) : script[i] = "ok",
   loads |-> IF \E i \in 1..(max_retries + 1) : script[i] = "ok"
             THEN CHOOSE i \in 1..(max_retries + 1) :
                    script[i] = "ok" /\ \A j \in 1..(i - 1) : script[j] # "ok"
             ELSE max_retries + 1]

\* Session._login from the first load of the user-info page (church.py
\* lines 122-139). script[i] is what load i of the page yields: no
\* response ("none"), status 401, a document without homeUnits
\* ("nohome"), or the user document ("ok"); only the last passes
\* _is_successful_user_response (lines 157-162). count is the number of
\* loads made so far, the one under test included. RuntimeError is raised
\* when the load under test fails and count >= max_retries; otherwise the
\* page is reloaded. ok: _user was set and the cookies were copied.
RECURSIVE Session_login(_, _)
Session_login(script, count) ==
  IF script[count] = "ok" THEN [ok |-> TRUE, loads |-> count]
  ELSE IF count >= max_retries THEN [ok |-> FALSE, loads |-> count]
  ELSE Session_login(script, count + 1)

\* Session.get_json (lines 80-95). url: "URL" for a URL object, "str" for a
\* string; user: whether _user is set; gets[i]: the status of the i-th GET;
\* scripts[k]: the script of the k-th login of the call. The result tells
\* whether a document was returned or what was raised, how many GETs and
\* logins were made, how many of the logins followed a 401, the loads of
\* each login, and whether _user is set afterwards.
get_json(url, user, gets, scripts) ==
  IF url = "URL" /\ ~user /\ ~Session_login(scripts[1], 1).ok
  THEN [ok |-> FALSE, kind |-> "RuntimeError", gets |-> 0, logins |-> 1,
        relogins |-> 0, loads |-> <<Session_login(scripts[1], 1).loads>>,
        user |-> FALSE]
  ELSE \* the logins made before the first GET
       LET before == IF url = "URL" /\ ~user
                     THEN <<Session_login(scripts[1], 1).loads>> ELSE <<>>
       IN
       IF gets[1] # 401
       THEN [ok |-> gets[1] < 400,
             kind |-> IF gets[1] < 400 THEN "none" ELSE "HTTPStatusError",
             gets |-> 1, logins |-> Len(before), relogins |-> 0,
             loads |-> before, user |-> user \/ before # <<>>]
       ELSE IF ~Session_login(scripts[Len(before) + 1], 1).ok
       THEN [ok |-> FALSE, kind |-> "RuntimeError", gets |-> 1,
             logins |-> Len(before) + 1, relogins |-> 1,
             loads |-> Append(before, Session_login(scripts[Len(before) + 1], 1).loads),
             user |-> user \/ before # <<>>]
       ELSE [ok |-> gets[2] < 400,
             kind |-> IF gets[2] < 400 THEN "none" ELSE "HTTPStatusError",
             gets |-> 2, logins |-> Len(before) + 1, relogins |-> 1,
             loads |-> Append(before, Session_login(scripts[Len(before) + 1], 1).loads),
             user |-> TRUE]

\* The lists given to the merger.
MergeInputs == UNION { [1..n -> MergePool] : n \in 0..MaxMerge }

\* The pairs given to the date comparison; "" is the dates_serving of a
\* record without both dates.
DateInputs == (DateRanges \cup {<<>>}) \X (DateRanges \cup {<<>>})

\* The raw records given to the normalizer: serving sisters with each
\* state of the explicit senior flag and of the birth date, which is
\* missing, empty, 41 * 365 days before today, one day less, or far on
\* either side.
CreateInputs ==
  { RawRecord(<< <<"S", ",", " ", "K">> >>, <<"SERVING">>, <<"FEMALE">>, <<12>>,
              <<"Mission 2">>, <<"1st Ward">>, <<D20240110>>, <<D20260105>>,
              senior, birth) :
      senior \in {<<>>, <<TRUE>>, <<FALSE>>},
      birth \in {<<>>, << <<>> >>, <<D19600101>>, <<D20050101>>,
                 << <<"1", "9", "8", "5", "0", "1", "1", "1">> >>,
                 << <<"1", "9", "8", "5", "0", "1", "1", "2">> >>} }

\* The photo directories given to the locator: up to MaxDir files, named for
\* id 123, for the longer ids 1234 and 123456789, for an id that ends in
\* 123, without a hyphen, and without a dot after the id.
PhotoListings ==
  UNION { [1..n -> { <<"t", "-", "1", "2", "3", ".", "j", "p", "g">>,
                     <<"t", "-", "1", "2", "3", "4", ".", "j", "p", "g">>,
                     <<"t", "-", "1", "2", "3", "4", "5", "6", "7", "8", "9",
                       ".", "j", "p", "g">>,
                     <<"t", "-", "0", "1", "2", "3", ".", "j", "p", "g">>,
                     <<"1", "2", "3", ".", "j", "p", "g">>,
                     <<"t", "-", "1", "2", "3">> }] : n \in 0..MaxDir }

InitMerger ==
  /\ given \in { [fn |-> "merge", missionaries |-> l] : l \in MergeInputs }
           \cup { [fn |-> "dates", ds1 |-> pair[1], ds2 |-> pair[2]] :
                    pair \in DateInputs }
           \cup { [fn |-> "create", missionary_data |-> raw] :
                    raw \in CreateInputs }
           \cup { [fn |-> "find", dir |-> d, missionary_id |-> id] :
                    d \in PhotoListings, id \in {12, 123, 123456789} }
           \cup { [fn |-> "get_json", url |-> url, user |-> user,
                    gets |-> <<g1, g2>>, scripts |-> <<s1, s2>>] :
                    url \in {"URL", "str"}, user \in BOOLEAN,
                    g1 \in {200, 401, 500}, g2 \in {200, 401},
                    s1 \in [1..MaxLoads -> {"401", "nohome", "ok"}],
                    s2 \in { [i \in 1..MaxLoads |-> "401"],
                             [i \in 1..MaxLoads |-> IF i = 1 THEN "none" ELSE "ok"],
                             [i \in 1..MaxLoads |->
                                IF i < max_retries THEN "nohome" ELSE "ok"] } }
  /\ answer = NotRun
  /\ db = Store(<<>>, <<>>, <<>>)
  /\ now = InitialNow
  /\ photos_dir = <<>>
  /\ extra_file = NoExtraFile
  /\ pc = [p \in Tasks |-> "idle"]
  /\ last = NoStep
  /\ lr = NoCall
  /\ walk = NoWalk
  /\ shown = NoCall
  /\ session = <<>>
  /\ resp = NoCall

\* _merge_couple_missionaries(missionaries) runs.
MergeCouples ==
  /\ given.fn = "merge"
  /\ ~answer.run
  /\ answer' = [run |-> TRUE,
                result |-> _merge_couple_missionaries(given.missionaries)]
  /\ UNCHANGED <<repo, listing, given, web>>

\* _dates_serving_nearly_equal(ds1, ds2) runs.
CompareDates ==
  /\ given.fn = "dates"
  /\ ~answer.run
  /\ answer' = [run |-> TRUE,
                result |-> _dates_serving_nearly_equal(given.ds1, given.ds2)]
  /\ UNCHANGED <<repo, listing, given, web>>

\* _create_missionary(missionary_data) runs.
CreateMissionary ==
  /\ given.fn = "create"
  /\ ~answer.run
  /\ answer' = [run |-> TRUE,
                result |-> _create_missionary(given.missionary_data, <<>>, Today)]
  /\ UNCHANGED <<repo, listing, given, web>>

\* _find_photo(missionary_id) runs on a photo directory.
FindPhoto ==
  /\ given.fn = "find"
  /\ ~answer.run
  /\ answer' = [run |-> TRUE,
                result |-> _find_photo(given.dir, given.missionary_id)]
  /\ UNCHANGED <<repo, listing, given, web>>

\* One call of Session.get_json, with what the browser and the server
\* answer during it.
GetJson ==
  /\ given.fn = "get_json"
  /\ ~answer.run
  /\ answer' = [run |-> TRUE,
                result |-> get_json(given.url, given.user, given.gets, given.scripts)]
  /\ UNCHANGED <<repo, listing, given, web>>

NextMerger ==
  MergeCouples \/ CompareDates \/ CreateMissionary \/ FindPhoto \/ GetJson

SpecMerger == InitMerger /\ [][NextMerger]_vars

\* ----------------------------------------------------------- crashes
\* A cycle that would stamp the time before it stores the roster.
StampFirstWrites(d, missionaries, dir, t) ==
  <<DbSet(d, "last_refresh", DatetimeVal(t)),
    DbSet(DbSet(d, "last_refresh", DatetimeVal(t)), "missionaries",
          ListVal(missionaries)),
    DbPop(DbSet(DbSet(d, "last_refresh", DatetimeVal(t)), "missionaries",
                ListVal(missionaries)), "refresh_error")>>

\* The store after each write of a due cycle that raises nothing, in the
\* order of the writes: the synced list (line 176), the list with its
\* photos (line 146), refresh_error popped (line 82); the fourth write,
\* of last_refresh (line 83), ends the cycle.
SuccessWrites(d, missionaries, dir, t) ==
  <<DbSet(d, "missionaries", ListVal(missionaries)),
    _photo_refresh(DbSet(d, "missionaries", ListVal(missionaries)), dir, FALSE).val,
    DbPop(_photo_refresh(DbSet(d, "missionaries", ListVal(missionaries)),
                         dir, FALSE).val, "refresh_error")>>

\* The process stops while a refresh() call is under way, before the fetch
\* has completed or after some of the writes that follow it but before
\* the last; every write made is in the store file. The program starts
\* again with no call under way.
Crash ==
  /\ \E p \in Tasks : pc[p] = "fetch"
  /\ pc' = [p \in Tasks |-> "idle"]
  /\ UNCHANGED <<now, photos_dir, extra_file, listing, pure, web>>
  /\ \E fetched \in FetchOutcomes :
     \E sync \in {SyncResult[fetched, extra_file, photos_dir]} :
     \E k \in 0..3 :
       /\ db' = IF k = 0 \/ ~sync.ok THEN db
                ELSE SuccessWrites(db, sync.val, photos_dir, now)[k]
       /\ last' = [Step("yes", "crashed", "none", TRUE,
                        SubSeq(<<"missionaries", "missionaries",
                                 "pop refresh_error">>, 1,
                               IF sync.ok THEN k ELSE 0))
                   EXCEPT !.got = <<fetched>>]

\* A start with the photo directory filled, no extra-records file, and a
\* store that is empty or holds the roster of an earlier run, due for a
\* refresh, without or with an error.
InitFew ==
  /\ Init
  /\ db \in { Store(<<>>, <<>>, <<>>),
               Store(<<OldRoster>>, <<DatetimeVal(0)>>, <<>>),
               Store(<<OldRoster>>, <<>>, <<OldError>>) }
  /\ photos_dir = <<Photo12, Photo1>>
  /\ extra_file = NoExtraFile

SpecCrash == InitFew /\ [][Next \/ Crash]_vars

\* ----------------------------------------------------- the slides page
PAGE_SIZE == 6

\* A handler that would queue the refresh and leave the reads to a later
\* step.
SlidesRefreshingFirst(p) ==
  /\ pc[p] = "idle"
  /\ pc' = [pc EXCEPT ![p] = "queued"]
  /\ UNCHANGED <<db, now, photos_dir, extra_file, last, lr, walk, shown, pure, web>>

\* A handler that would not look for the token.
SlidesUngated(p) ==
  /\ pc[p] = "idle"
  /\ lr' = Call(0, PAGE_SIZE, "none")
  /\ shown' = [called |-> TRUE, result |-> get_refresh_error(db)]
  /\ pc' = [pc EXCEPT ![p] = "queued"]
  /\ resp' = [called |-> TRUE, status |-> 200, target |-> "slides.html"]
  /\ UNCHANGED <<db, now, photos_dir, extra_file, last, walk, pure, session>>

\* The handler slides(), from the request to the response (slides_page.py
\* lines 22-48), which has no await. Without a token (db.get("token") is
\* None or empty) it answers with a redirect to the setup page (lines
\* 24-26; the default status of a RedirectResponse is 307). With a token it
\* builds the photo client from db["token"], db["client_id"] and
\* db["client_secret"] (lines 31-36, a KeyError when one is absent), reads
\* the slice (line 38) and the error (line 43), makes refresh() the
\* background task (line 46) and builds the response with the rendered
\* page (line 48); the task starts after the response has been sent. When
\* a line raises, the request fails and no task is made. The request has
\* the default offset and limit (lines 28-29), as the first request of a
\* board and every next_url of a short roster have.
Slides(p) ==
  /\ pc[p] = "idle"
  /\ IF DbGet(db, "token", [type |-> "NoneType", val |-> <<>>]).val = <<>>
     THEN /\ resp' = [called |-> TRUE, status |-> 307, target |-> "setup"]
          /\ UNCHANGED <<lr, shown, pc>>
     ELSE IF ~({"client_id", "client_secret"} \subseteq DOMAIN db)
     THEN /\ resp' = [called |-> TRUE, status |-> 500, target |-> "KeyError"]
          /\ UNCHANGED <<lr, shown, pc>>
     ELSE \E offset \in {0}, limit \in {PAGE_SIZE} :
          \E call \in {Call(offset, limit, "none")} :
            /\ lr' = call
            /\ IF call.result.ok
               THEN /\ shown' = [called |-> TRUE, result |-> get_refresh_error(db)]
                    /\ pc' = [pc EXCEPT ![p] = "queued"]
                    /\ resp' = [called |-> TRUE, status |-> 200,
                                target |-> "slides.html"]
               ELSE /\ resp' = [called |-> TRUE, status |-> 500,
                                target |-> call.result.exc.kind]
                    /\ UNCHANGED <<shown, pc>>
  /\ UNCHANGED <<db, now, photos_dir, extra_file, last, walk, pure, session>>

\* The store when the board starts: that of InitFew as it is before the
\* board is set up, or with the client id, the client secret and the token
\* that the setup has stored.
InitPage ==
  /\ \E s \in { Store(<<>>, <<>>, <<>>),
               Store(<<OldRoster>>, <<DatetimeVal(0)>>, <<>>),
               Store(<<OldRoster>>, <<>>, <<OldError>>) } :
       db \in { s, DbSet(DbSet(DbSet(s, "client_id", StrVal("id")),
                               "client_secret", StrVal("secret")),
                         "token", [type |-> "dict", val |-> <<"access_token">>]) }
  /\ now = InitialNow
  /\ photos_dir = <<Photo12, Photo1>>
  /\ extra_file = NoExtraFile
  /\ pc = [p \in Tasks |-> "idle"]
  /\ last = NoStep
  /\ lr = NoCall
  /\ walk = NoWalk
  /\ shown = NoCall
  /\ given = NoArgs
  /\ answer = NotRun
  /\ session = <<>>
  /\ resp = NoCall

\* Page requests, each followed by its background refresh, and the
\* clearing of the cache.
SpecPage ==
  InitPage /\ [][ \/ \E p \in Tasks : Slides(p)
                  \/ \E p \in Tasks : pc[p] = "queued" /\ RefreshStart(p)
                  \/ \E p \in Tasks : RefreshResume(p)
                  \/ Clear
                  \/ Tick ]_vars

\* ------------------------------------------------ login, logout, setup
\* str.strip(), for text whose only whitespace is the space.
Strip(s) ==
  IF \A i \in 1..Len(s) : s[i] = " " THEN <<>>
  ELSE SubSeq(s,
              CHOOSE i \in 1..Len(s) :
                s[i] # " " /\ \A j \in 1..(i - 1) : s[j] = " ",
              CHOOSE i \in 1..Len(s) :
                s[i] # " " /\ \A j \in (i + 1)..Len(s) : s[j] = " ")

\* str(form_data.get(k, "")).strip(); a field is <<>> (not sent) or <<text>>.
FormGet(form, k) == Strip(IF form[k] = <<>> THEN <<>> ELSE form[k][1])

\* _password_hasher.hash(password): a hash of the password with the
\* hasher's current parameters. A hash stored by an earlier version may
\* have other parameters, which check_needs_rehash reports.
PasswordHash(password) == StrVal([password |-> password, params |-> "current"])

\* An establishment that would not compare the confirmation.
EstablishUnconfirmed(d, form) ==
  [ok |-> FALSE,
   db |-> IF FormGet(form, "password") # <<>>
          THEN DbSet(d, "admin_password_hash", PasswordHash(FormGet(form, "password")))
          ELSE d,
   context |-> {}]

\* _establish_admin_password and _validate_admin_password_input (lines
\* 47-75): the store and the context they leave (ok: the request did not
\* log in). A later assignment to the same context key replaces an earlier
\* one.
_establish_admin_password(d, form) ==
  IF FormGet(form, "password") # <<>>
     /\ FormGet(form, "password") = FormGet(form, "password_conf")
  THEN [ok |-> FALSE,
        db |-> DbSet(d, "admin_password_hash",
                     PasswordHash(FormGet(form, "password"))),
        context |-> {<<"success_message",
                       "Admin password set successfully. You can now log in.">>}]
  ELSE [ok |-> FALSE, db |-> d,
        context |->
          (IF FormGet(form, "password") = <<>>
           THEN {<<"password_error", "Password is required.">>} ELSE {})
          \cup (IF FormGet(form, "password_conf") = <<>>
                THEN {<<"password_conf_error", "Password confirmation is required.">>}
                ELSE {<<"password_conf_error", "Passwords do not match.">>})]

\* A login that would accept every form.
LoginAcceptingAll(d, form) == [ok |-> TRUE, db |-> d, context |-> {}]

\* _login and _validate_login_input (lines 78-119): whether the login
\* succeeded, the store and the context. The hash is verified before the
\* username is compared, and rehashed only after both have passed.
_login(d, form) ==
  IF FormGet(form, "username") = <<>> \/ FormGet(form, "password") = <<>>
  THEN [ok |-> FALSE, db |-> d,
        context |->
          (IF FormGet(form, "username") = <<>>
           THEN {<<"username_error", "Username is required.">>} ELSE {})
          \cup (IF FormGet(form, "password") = <<>>
                THEN {<<"password_error", "Password is required.">>} ELSE {})]
  ELSE IF d["admin_password_hash"].val.password # FormGet(form, "password")
  THEN [ok |-> FALSE, db |-> d,
        context |-> {<<"login_error", "Invalid username or password.">>}]
  ELSE IF FormGet(form, "username") # <<"a", "d", "m", "i", "n">>
  THEN [ok |-> FALSE, db |-> d,
        context |-> {<<"login_error", "Invalid username or password.">>}]
  ELSE [ok |-> TRUE,
        db |-> IF d["admin_password_hash"].val.params # "current"
               THEN DbSet(d, "admin_password_hash",
                          PasswordHash(FormGet(form, "password")))
               ELSE d,
        context |-> {}]

\* The handler login (lines 14-44): GET renders the page; POST takes the
\* establishment path while no hash is stored (bool(db.get(...)) is False)
\* and the login path otherwise, and only a successful login sets the
\* session's user and redirects to the setup page.
Login(method, form) ==
  /\ \E out \in { IF method = "GET" \/ "admin_password_hash" \in DOMAIN db
                  THEN [ok |-> FALSE, db |-> db, context |-> {}]
                  ELSE _establish_admin_password(db, form) } :
     \E try \in { IF method = "POST" /\ "admin_password_hash" \in DOMAIN db
                  THEN _login(db, form) ELSE out } :
       /\ db' = try.db
       /\ session' = IF try.ok THEN <<"admin">> ELSE session
       /\ resp' = [called |-> TRUE, handler |-> "login", method |-> method,
                   form |-> form,
                   status |-> IF try.ok THEN 303 ELSE 200,
                   target |-> IF try.ok THEN "setup" ELSE "login.html",
                   context |-> try.context]
  /\ UNCHANGED <<now, photos_dir, extra_file, pc, last, listing, pure>>

\* The handler logout (logout_page.py lines 7-10).
Logout ==
  /\ session' = <<>>
  /\ resp' = [called |-> TRUE, handler |-> "logout", method |-> "POST",
              form |-> <<>>, status |-> 303, target |-> "login", context |-> {}]
  /\ UNCHANGED <<repo, listing, pure>>

\* A setup handler without the login_required decorator.
SetupUngated(method, form) ==
  /\ db' = DbSet(DbSet(db, "setup_error", StrVal("")),
                 "setup_error_description", StrVal(""))
  /\ resp' = [called |-> TRUE, handler |-> "setup", method |-> method,
              form |-> form, status |-> 200, target |-> "setup.html",
              context |-> {}]
  /\ UNCHANGED <<now, photos_dir, extra_file, pc, last, listing, pure, session>>

\* The handler setup under login_required (login_required.py lines 26-37,
\* setup_page.py lines 15-99): a session whose user is not 'admin' is
\* redirected to the login page before the handler is called. GET shows
\* the stored values and empties the stored error; POST validates the
\* stripped client id and secret, stores them with the state secret of
\* setup_auth and redirects to the authorization URL.
Setup(method, form) ==
  /\ IF session # <<"admin">>
     THEN /\ resp' = [called |-> TRUE, handler |-> "setup", method |-> method,
                      form |-> form, status |-> 303, target |-> "login",
                      context |-> {}]
          /\ UNCHANGED db
     ELSE IF method = "GET"
     THEN /\ db' = DbSet(DbSet(db, "setup_error", StrVal("")),
                         "setup_error_description", StrVal(""))
          /\ resp' = [called |-> TRUE, handler |-> "setup", method |-> method,
                      form |-> form, status |-> 200, target |-> "setup.html",
                      context |-> {}]
     ELSE IF FormGet(form, "client_id") = <<>> \/ FormGet(form, "client_secret") = <<>>
     THEN /\ resp' = [called |-> TRUE, handler |-> "setup", method |-> method,
                      form |-> form, status |-> 200, target |-> "setup.html",
                      context |->
                        (IF FormGet(form, "client_id") = <<>>
                         THEN {<<"client_id_error", "Client ID is required.">>}
                         ELSE {})
                        \cup (IF FormGet(form, "client_secret") = <<>>
                              THEN {<<"client_secret_error",
                                      "Client Secret is required.">>}
                              ELSE {})]
          /\ UNCHANGED db
     ELSE /\ db' = DbSet(DbSet(DbSet(db, "client_id",
                                     StrVal(FormGet(form, "client_id"))),
                               "client_secret",
                               StrVal(FormGet(form, "client_secret"))),
                         "state_secret", StrVal("state"))
          /\ resp' = [called |-> TRUE, handler |-> "setup", method |-> method,
                      form |-> form, status |-> 303, target |-> "auth_url",
                      context |-> {}]
  /\ UNCHANGED <<now, photos_dir, extra_file, pc, last, listing, pure, session>>

\* The store when the program starts: without an admin password, or with
\* the hash of the password "f" that an earlier run stored, with the
\* current parameters or with older ones.
InitAuth ==
  /\ db \in { Store(<<>>, <<>>, <<>>),
              DbSet(Store(<<>>, <<>>, <<>>), "admin_password_hash",
                    PasswordHash(<<"f">>)),
              DbSet(Store(<<>>, <<>>, <<>>), "admin_password_hash",
                    StrVal([password |-> <<"f">>, params |-> "old"])) }
  /\ now = InitialNow
  /\ photos_dir = <<>>
  /\ extra_file = NoExtraFile
  /\ pc = [p \in Tasks |-> "idle"]
  /\ last = NoStep
  /\ lr = NoCall
  /\ walk = NoWalk
  /\ shown = NoCall
  /\ given = NoArgs
  /\ answer = NotRun
  /\ session = <<>>
  /\ resp = NoCall

\* One browser session sends requests to login, logout and setup. A field
\* of a form is not sent, empty, blank, or a text with or without a space
\* around it.
SpecAuth ==
  InitAuth /\ [][ \/ Login("GET", <<>>)
                  \/ \E form \in [username : {<<>>, << <<"a", "d", "m", "i", "n">> >>,
                                              << <<" ", "a", "d", "m", "i", "n">> >>,
                                              << <<"h">> >>},
                                  password : {<<>>, << <<"f">> >>, << <<"f", " ">> >>,
                                              << <<"g">> >>, << <<" ">> >>},
                                  password_conf : {<<>>, << <<"f">> >>, << <<"g">> >>,
                                                   << <<" ">> >>}] :
                       Login("POST", form)
                  \/ Logout
                  \/ Setup("GET", <<>>)
                  \/ \E form \in [client_id : {<<>>, << <<"i">> >>, << <<" ">> >>},
                                  client_secret : {<<>>, << <<"s">> >>}] :
                       Setup("POST", form) ]_vars

\* ------------------------------------------------------------ retries
\* refresh() keeps being called, time passes, and the roster source does
\* not fail for ever: a call that is started runs (the event loop
\* schedules it), and of the calls that come to the end of their fetch,
\* again and again, some complete with nothing raised.
SpecLive ==
  /\ InitFew
  /\ [][ \/ \E p \in Tasks : RefreshStart(p)
         \/ \E p \in Tasks : RefreshResume(p)
         \/ Tick ]_vars
  /\ WF_vars(\E p \in Tasks : RefreshStart(p))
  /\ SF_vars(\E p \in Tasks : RefreshResume(p) /\ last'.failed = "none")
  /\ WF_vars(Tick)

\* ------------------------------------------------- refresh: the claims
\* In a step, the store's key k keeps its presence and its value.
KeyUnchanged(k) ==
  /\ (k \in DOMAIN db') = (k \in DOMAIN db)
  /\ (k \in DOMAIN db => db'[k] = db[k])

\* In a step, task p's refresh() call goes from its start into the fetch,
\* or from the fetch to its return.
Suspends(p) == pc[p] = "idle" /\ pc'[p] = "fetch"
Completes(p) == pc[p] = "fetch" /\ pc'[p] = "idle"

\* C1. Stale on failure: a refresh() call that finds the cache due writes
\* nothing before its fetch, and when the fetch raises, the stored
\* 'missionaries' and 'last_refresh' are what they were and
\* get_refresh_error() is the non-empty string '<ExceptionKind>: <message>'
\* of the exception raised.
C1_StaleOnFailure ==
  [][ \A p \in Tasks :
        /\ Suspends(p) => db' = db
        /\ (Completes(p) /\ last'.failed = "fetch") =>
             /\ KeyUnchanged("missionaries")
             /\ KeyUnchanged("last_refresh")
             /\ get_refresh_error(db') # ""
             /\ \E f \in FetchOutcomes :
                  /\ ~f.ok
                  /\ f.exc.kind # ""
                  /\ get_refresh_error(db') = f.exc.kind \o ": " \o f.exc.msg
    ]_vars

\* A fetch has raised while the store held a roster and a time stamp.
C1_Witness ==
  /\ last.failed = "fetch"
  /\ {"missionaries", "last_refresh", "refresh_error"} \subseteq DOMAIN db
  /\ db["missionaries"] = OldRoster

\* C2. Not-due cycle: a refresh() call that finds the cache not due makes
\* no fetch and leaves 'last_refresh' and 'refresh_error' as they were; if
\* it returns, the store's only change is the 'missionaries' list, each
\* record with image_path and photo_url recomputed and nothing else
\* changed.
C2_NotDueCycle ==
  [][ \A p \in Tasks :
        (_needs_refresh(db, now) = Ok(FALSE) /\ RefreshStart(p)) =>
          /\ pc' = pc
          /\ ~last'.fetched
          /\ KeyUnchanged("last_refresh")
          /\ KeyUnchanged("refresh_error")
          /\ last'.result = "returned" =>
               LET old == DbGet(db, "missionaries", ListVal(<<>>)).val
                   new == db'["missionaries"].val
               IN /\ "missionaries" \in DOMAIN db'
                  /\ db'["missionaries"].type = "list"
                  /\ Len(new) = Len(old)
                  /\ \A i \in 1..Len(old) :
                       /\ new[i].image_path = _find_photo(photos_dir, old[i].id)
                       /\ new[i].photo_url = PhotoUrl(old[i], new[i].image_path)
                       /\ [new[i] EXCEPT !.photo_url = <<>>, !.image_path = <<>>]
                          = [old[i] EXCEPT !.photo_url = <<>>, !.image_path = <<>>]
    ]_vars

\* A not-due call has returned and recomputed a photo, with an earlier
\* error still stored.
C2_Witness ==
  /\ last.due = "no"
  /\ last.result = "returned"
  /\ {"missionaries", "last_refresh", "refresh_error"} \subseteq DOMAIN db
  /\ db["missionaries"].type = "list"
  /\ \E i \in 1..Len(db["missionaries"].val) :
       db["missionaries"].val[i].image_path = Photo1

\* C3. Cache policy: a refresh() call goes on to the fetch exactly when
\* now - last_refresh is more than REFRESH_INTERVAL, with an absent
\* 'last_refresh' always due; reaching that decision writes nothing.
C3_CachePolicy ==
  [][ \A p \in Tasks :
        ((pc[p] = "idle" /\ pc' = pc /\ RefreshStart(p)) \/ Suspends(p)) =>
          LET absent == "last_refresh" \notin DOMAIN db
              stamp == db["last_refresh"]
          IN /\ absent => pc'[p] = "fetch"
             /\ (~absent /\ stamp.type = "datetime") =>
                  (pc'[p] = "fetch" <=> now - stamp.val > REFRESH_INTERVAL)
             /\ (pc'[p] = "fetch" \/ last'.failed = "check") => db' = db
    ]_vars

\* A call has found a cache not due whose time stamp is exactly
\* REFRESH_INTERVAL old.
C3_Witness ==
  /\ last.due = "no"
  /\ "last_refresh" \in DOMAIN db
  /\ db["last_refresh"].type = "datetime"
  /\ now - db["last_refresh"].val = REFRESH_INTERVAL

\* C4. A due refresh() whose fetch and processing succeed stores the list
\* built from the fetched records and the extra file, every record of it
\* coming from one of those, leaves 'refresh_error' absent and
\* 'last_refresh' at the time of completion; a refresh() called next is
\* not due.
C4_SuccessfulRefresh ==
  [][ \A p \in Tasks : (Completes(p) /\ last'.failed = "none") =>
        /\ "refresh_error" \notin DOMAIN db'
        /\ db'["last_refresh"] = DatetimeVal(now')
        /\ _needs_refresh(db', now') = Ok(FALSE)
        /\ \E f \in FetchOutcomes :
             LET built == SyncResult[f, extra_file, photos_dir]
                 raws == f.val \o extra_file.data
                 new == db'["missionaries"].val
             IN /\ f.ok
                /\ built.ok
                /\ db'["missionaries"].type = "list"
                /\ Len(new) = Len(built.val)
                /\ \A i \in 1..Len(new) :
                     /\ new[i] = RefreshPhotoOf(built.val[i], photos_dir)
                     /\ \E j \in 1..Len(raws) :
                          raws[j].missionaryName = <<new[i].sort_name>>
    ]_vars

\* A due call has succeeded over an earlier roster and an earlier error:
\* Sister J, who was not fetched again, is gone.
C4_Witness ==
  /\ last.due = "yes"
  /\ last.failed = "none"
  /\ last.result = "returned"
  /\ "missionaries" \in DOMAIN db
  /\ "refresh_error" \notin DOMAIN db
  /\ db["missionaries"].type = "list"
  /\ Len(db["missionaries"].val) = 2
  /\ \A i \in 1..2 : db["missionaries"].val[i].id # 0
  /\ db["last_refresh"] = DatetimeVal(MaxTime)

\* C5. Time stamp and error lifecycle: 'last_refresh' is written only by
\* the completion of a due cycle that raised nothing; a completing cycle
\* either clears 'refresh_error' (success) or sets it (failure), never
\* both, and a failed cycle leaves 'last_refresh' as it was.
C5_StampAndErrorLifecycle ==
  [][ /\ ("last_refresh" \in DOMAIN db' /\ ~KeyUnchanged("last_refresh")) =>
           \E p \in Tasks :
             Completes(p) /\ last'.due = "yes" /\ last'.failed = "none"
      /\ ("refresh_error" \in DOMAIN db' /\ ~KeyUnchanged("refresh_error")) =>
           \E p \in Tasks :
             Completes(p) /\ last'.due = "yes" /\ last'.failed # "none"
      /\ (\E p \in Tasks : Suspends(p)) => db' = db
      /\ \A p \in Tasks :
           /\ Completes(p) =>
                /\ IF last'.failed = "none"
                   THEN "refresh_error" \notin DOMAIN db'
                   ELSE "refresh_error" \in DOMAIN db'
                        /\ KeyUnchanged("last_refresh")
                /\ ~(\E i, j \in DOMAIN last'.writes :
                       /\ last'.writes[i] = "refresh_error"
                       /\ last'.writes[j] = "pop refresh_error")
    ]_vars

\* A due cycle has failed after its fetch, over an earlier time stamp.
C5_Witness ==
  /\ last.due = "yes"
  /\ last.failed = "normalize"
  /\ {"last_refresh", "refresh_error"} \subseteq DOMAIN db
  /\ db["last_refresh"] = DatetimeVal(0)

\* C6. When a step of a due cycle after the fetch raises (normalize, extras,
\* merge, photo recomputation, sort), 'missionaries' and 'last_refresh' are
\* what they were before and 'refresh_error' is set.
C6_FailureLeavesRosterUntouched ==
  [][ \A p \in Tasks :
        (Completes(p) /\ last'.failed \in {"normalize", "merge", "photo"}) =>
          /\ KeyUnchanged("missionaries")
          /\ KeyUnchanged("last_refresh")
          /\ "refresh_error" \in DOMAIN db'
    ]_vars

\* C7. refresh() never raises to its caller, whatever the store holds and
\* whatever the fetch yields, due or not.
C7_RefreshNeverRaises == last.result # "raised"

\* ------------------------------------------------- listing: the claims
\* The store holds a list under 'missionaries'.
HoldsList ==
  "missionaries" \in DOMAIN db /\ db["missionaries"].type = "list"

\* What the slideshow has visited is the start of the stored list, in
\* order and each element once; when next_offset has come back to 0 it is
\* the whole list; until then every request moved on to elements not yet
\* visited.
VisitsAllInOrder ==
  LET list == db["missionaries"].val
      count == Len(walk.visited)
  IN /\ count <= Len(list)
     /\ walk.visited = SubSeq(list, 1, count)
     /\ walk.done => walk.visited = list
     /\ ~walk.done => /\ walk.offset = count
                      /\ (count = 0 \/ walk.offset < Len(list))

\* C8 (as stated). Offset wraparound: for a stored list of any length and
\* any limit L, following next_offset from offset 0 visits every element
\* exactly once, in order, before next_offset returns to 0.
C8_OffsetWraparound ==
  (walk.walking /\ HoldsList) => VisitsAllInOrder

\* C8 (amended). The same for any limit L >= 1.
C8_OffsetWraparoundPositiveLimit ==
  (walk.walking /\ HoldsList /\ walk.limit >= 1) => VisitsAllInOrder

\* A slideshow over 9 elements with limit 3 has ended after the next
\* offsets 3, 6, 0.
C8_Witness ==
  /\ walk.walking
  /\ walk.done
  /\ HoldsList
  /\ Len(db["missionaries"].val) = 9
  /\ walk.limit = 3
  /\ walk.returned = <<3, 6, 0>>
  /\ walk.visited = db["missionaries"].val

\* The latest call returned the elements at the indices
\* [offset, offset+limit) of the filtered list, and offset+limit as the
\* next offset if that is less than the filtered list's length, else 0.
SliceAndNextOffset ==
  LET Keeps(m) == lr.filter_ = "none" \/ m.couple
      all == SelectSeq(DbGet(db, "missionaries", ListVal(<<>>)).val, Keeps)
      lo == lr.offset
      hi == lr.offset + lr.limit
      indices == {i \in lo..(hi - 1) : 0 <= i /\ i < Len(all)}
      first == IF lo > 0 THEN lo ELSE 0
  IN /\ lr.result.ok
     /\ Len(lr.result.val[1]) = Cardinality(indices)
     /\ \A k \in 1..Len(lr.result.val[1]) :
          lr.result.val[1][k] = all[first + k]
     /\ lr.result.val[2] = (IF hi < Len(all) THEN hi ELSE 0)

\* C9 (as stated). list_range(offset, limit) returns the elements at the
\* indices [offset, offset+limit) of the stored list after the filter, and
\* next_offset = offset+limit when that is less than the length, else 0.
C9_SliceAndNextOffset ==
  (lr.called /\ (HoldsList \/ "missionaries" \notin DOMAIN db)) =>
    SliceAndNextOffset

\* C9 (amended). The same for offset >= 0 and limit >= 0.
C9_SliceAndNextOffsetNonNegative ==
  (/\ lr.called
   /\ (HoldsList \/ "missionaries" \notin DOMAIN db)
   /\ lr.offset >= 0
   /\ lr.limit >= 0) =>
    SliceAndNextOffset

\* A call with the couple filter on 9 stored records, 4 of them couples,
\* returned the second and third couple and 3 as the next offset.
C9_Witness ==
  /\ lr.called
  /\ HoldsList
  /\ Len(db["missionaries"].val) = 9
  /\ lr.filter_ = "couple"
  /\ lr.offset = 1
  /\ lr.limit = 2
  /\ lr.result = Ok(<< <<Entry(4), Entry(6)>>, 3 >>)

\* C10. list_range never raises: when 'missionaries' is absent or holds a
\* value of another type than a list, it returns the empty list and
\* next_offset 0. Stated for offset >= 0 and limit >= 0, where the next
\* offset of an empty list is 0.
C10_MalformedListsAsEmpty ==
  (lr.called /\ ~HoldsList /\ lr.offset >= 0 /\ lr.limit >= 0) =>
    lr.result = Ok(<< <<>>, 0 >>)

\* C11. list_range and get_refresh_error only read: a call of either makes
\* no fetch and leaves every key of the store as it was, and
\* get_refresh_error returns the stored error, or "" when none is stored.
C11_ReadOnly ==
  [][ /\ ((lr' # lr /\ lr'.called) \/ (shown' # shown /\ shown'.called)) =>
           /\ KeyUnchanged("missionaries")
           /\ KeyUnchanged("last_refresh")
           /\ KeyUnchanged("refresh_error")
           /\ DOMAIN db' = DOMAIN db
           /\ pc' = pc
           /\ last' = last
      /\ (shown' # shown /\ shown'.called) =>
           shown'.result = (IF "refresh_error" \in DOMAIN db
                            THEN db["refresh_error"].val ELSE "")
    ]_vars

\* Both have been called on a store that holds a roster, a time stamp and
\* an error, and the error came back.
C11_Witness ==
  /\ lr.called
  /\ lr.result.ok
  /\ lr.result.val[1] # <<>>
  /\ shown.called
  /\ shown.result = OldError.val
  /\ {"missionaries", "last_refresh", "refresh_error"} \subseteq DOMAIN db

\* ------------------------------------------------- merger: the claims
\* The days between the first days of two months.
DaysApart(a, b) ==
  IF OrdinalOf(a) >= OrdinalOf(b) THEN OrdinalOf(a) - OrdinalOf(b)
  ELSE OrdinalOf(b) - OrdinalOf(a)

\* Nearly equal as the specification words it: the same text, or the same
\* first month with last months at most 32 days apart, or the same last
\* month with first months at most 32 days apart.
NearlyEqualAsSpecified(ds1, ds2) ==
  \/ ds1 = ds2
  \/ \E f1 \in FirstMonths, g1 \in FinalMonths,
        f2 \in FirstMonths, g2 \in FinalMonths :
       /\ ds1 = RangeText(f1, g1)
       /\ ds2 = RangeText(f2, g2)
       /\ \/ f1 = f2 /\ DaysApart(g1, g2) <= 32
          \/ g1 = g2 /\ DaysApart(f1, f2) <= 32

\* A name without its last word and the blank before it.
WithoutLastWord(name) ==
  SubSeq(name, 1, (CHOOSE i \in 1..Len(name) :
                     /\ name[i] = " "
                     /\ \A j \in (i + 1)..Len(name) : name[j] # " ") - 1)

\* The merger has run on the list <<A, B>> or <<B, A>> of a senior elder A
\* and a senior sister B of one mission and home unit with nearly equal
\* dates.
IsCouple(A, B) ==
  /\ A.senior /\ B.senior
  /\ A.gender = "MALE" /\ B.gender = "FEMALE"
  /\ A.mission = B.mission
  /\ A.home_unit = B.home_unit
  /\ NearlyEqualAsSpecified(A.dates_serving, B.dates_serving)

\* The one record that the two make.
IsMergeOf(result, A, B) ==
  /\ result.ok
  /\ Len(result.val) = 1
  /\ result.val[1].name = WithoutLastWord(A.name) \o <<" ", "&", " ">> \o B.name
  /\ result.val[1].id = A.id
  /\ result.val[1].couple

\* C12 as stated. Merge symmetry: for a senior elder A and a senior sister
\* B with the same mission, the same home unit and nearly equal dates, the
\* merger returns one record whichever comes first: A's name without its
\* last word, " & ", B's name; A's id; couple set.
C12_MergeSymmetry ==
  (given.fn = "merge" /\ answer.run /\ Len(given.missionaries) = 2) =>
    \A a, b \in 1..2 :
      (a # b /\ IsCouple(given.missionaries[a], given.missionaries[b])) =>
        IsMergeOf(answer.result, given.missionaries[a], given.missionaries[b])

\* C12, amended: the same for A and B with different ids.
C12_MergeSymmetryDistinctIds ==
  (given.fn = "merge" /\ answer.run /\ Len(given.missionaries) = 2) =>
    \A a, b \in 1..2 :
      (/\ a # b
       /\ IsCouple(given.missionaries[a], given.missionaries[b])
       /\ given.missionaries[a].id # given.missionaries[b].id) =>
        IsMergeOf(answer.result, given.missionaries[a], given.missionaries[b])

\* The sister came first, with a last month one later than the elder's,
\* and one record with the elder's id came out.
C12_Witness ==
  /\ given.fn = "merge"
  /\ given.missionaries = <<[Wife EXCEPT !.dates_serving = MonthLonger], Husband>>
  /\ answer.run
  /\ IsMergeOf(answer.result, Husband, [Wife EXCEPT !.dates_serving = MonthLonger])

\* C13. Non-merge guard: two records that differ in mission or in home
\* unit, or are not one MALE and one FEMALE, or have dates that are not
\* nearly equal, or of which one is not senior, are not merged: the merger
\* returns a list as long as its input.
C13_NonMergeGuard ==
  (given.fn = "merge" /\ answer.run /\ Len(given.missionaries) = 2) =>
    LET A == given.missionaries[1]
        B == given.missionaries[2]
    IN (\/ A.mission # B.mission
        \/ A.home_unit # B.home_unit
        \/ {A.gender, B.gender} # {"MALE", "FEMALE"}
        \/ ~NearlyEqualAsSpecified(A.dates_serving, B.dates_serving)
        \/ ~A.senior
        \/ ~B.senior) =>
         /\ answer.result.ok
         /\ Len(answer.result.val) = 2

\* How many input records a returned record stands for: one more than the
\* " & " joints of its name (no name of the pool holds an "&").
Joints(name) == Cardinality({ i \in 1..Len(name) : name[i] = "&" })

RECURSIVE RecordsIn(_)
RecordsIn(out) ==
  IF out = <<>> THEN 0 ELSE 1 + Joints(Head(out).name) + RecordsIn(Tail(out))

\* C14. Every input record takes part in at most one merge: no returned
\* record combines more than two input records, and the returned records
\* together stand for no more records than were given.
C14_AtMostOneMerge ==
  (given.fn = "merge" /\ answer.run /\ answer.result.ok) =>
    /\ \A i \in 1..Len(answer.result.val) :
         Joints(answer.result.val[i].name) <= 1
    /\ RecordsIn(answer.result.val) <= Len(given.missionaries)

\* The records of `kept` occur in `out` in their order.
RECURSIVE OccurInOrder(_, _)
OccurInOrder(kept, out) ==
  IF kept = <<>> THEN TRUE
  ELSE IF out = <<>> THEN FALSE
  ELSE IF Head(kept) = Head(out) THEN OccurInOrder(Tail(kept), Tail(out))
  ELSE OccurInOrder(kept, Tail(out))

\* The records of the list at index i and after that are not senior or
\* have no companion in the list, as the specification words a companion.
RECURSIVE PassedThrough(_, _)
PassedThrough(lst, i) ==
  IF i > Len(lst) THEN <<>>
  ELSE (IF \/ ~lst[i].senior
           \/ ~\E j \in (1..Len(lst)) \ {i} :
                 IsCouple(lst[i], lst[j]) \/ IsCouple(lst[j], lst[i])
        THEN <<lst[i]>> ELSE <<>>) \o PassedThrough(lst, i + 1)

\* C15. Pass-through: every record that is not senior and every senior
\* without a companion is returned unchanged, once and in the order given
\* (ids need not be distinct); the list returned is shorter than the list
\* given by the number of merged records in it.
C15_PassThrough ==
  (given.fn = "merge" /\ answer.run /\ answer.result.ok) =>
    /\ OccurInOrder(PassedThrough(given.missionaries, 1), answer.result.val)
    /\ Len(answer.result.val) =
         Len(given.missionaries)
         - Cardinality({ i \in 1..Len(answer.result.val) :
                           answer.result.val[i].couple })

\* C16. Date nearness: two date ranges are nearly equal exactly when they
\* are the same text, or have the same first month and last months at most
\* 32 days apart, or the same last month and first months at most 32 days
\* apart; the answer is the same for both orders of the arguments.
C16_DateNearness ==
  (/\ given.fn = "dates"
   /\ answer.run
   /\ \/ given.ds1 = given.ds2
      \/ given.ds1 \in DateRanges /\ given.ds2 \in DateRanges) =>
    /\ answer.result.ok
    /\ answer.result.val = NearlyEqualAsSpecified(given.ds1, given.ds2)
    /\ _dates_serving_nearly_equal(given.ds2, given.ds1) = answer.result

\* Ranges with one first month and last months 31 days apart were found
\* nearly equal.
C16_Witness ==
  /\ given.fn = "dates"
  /\ given.ds1 = MonthLonger
  /\ given.ds2 = TwoYears
  /\ answer.run
  /\ answer.result = Ok(TRUE)

\* ------------------------------------------- the sync cycle: the claims
\* A raw record that the inclusion filter is to keep out.
NotServingOrNameless(raw) ==
  \/ raw.status # <<"SERVING">>
  \/ Get(raw.missionaryName, <<>>) = <<>>

\* A stored record that was built from the raw record.
BuiltFrom(record, raw) ==
  /\ record.sort_name = Get(raw.missionaryName, <<>>)
  /\ record.id = Get(raw.missionaryIndividualId, 0)

\* C17. Filter exclusion: after a full sync the stored roster holds no
\* record built from a raw record that is not "SERVING" or has no name,
\* be it a record of the roster source or of the extra-records file.
C17_FilterExclusion ==
  [][ \A p \in Tasks : (Completes(p) /\ last'.failed = "none") =>
        LET raws == last'.got[1].val \o extra_file.data
            stored == db'["missionaries"].val
        IN \A i \in 1..Len(stored), j \in 1..Len(raws) :
             NotServingOrNameless(raws[j]) => ~BuiltFrom(stored[i], raws[j])
    ]_vars

\* C18. A raw record with a missing or malformed start, end or birth date
\* never aborts a full sync: once the fetch has returned its records, the
\* cycle fails neither in normalizing them nor in merging couples.
C18_MalformedDateTolerated ==
  [][ \A p \in Tasks : (Completes(p) /\ last'.got[1].ok) =>
        last'.failed \notin {"normalize", "merge"}
    ]_vars

\* C19. Extra records: when the extra-records file loads and its records
\* normalize, each of them is in the roster that a full sync stores; when
\* loading or normalizing fails, the sync goes as with no extra records:
\* it fails or succeeds as it would without the file, and on success it
\* stores the records of the roster source, clears 'refresh_error' and
\* stamps 'last_refresh'.
C19_ExtraRecords ==
  [][ \A p \in Tasks :
        (Completes(p) /\ last'.got[1].ok /\ last'.failed # "photo") =>
          LET loaded == /\ extra_file.exists
                        /\ extra_file.valid
                        /\ CreateAll(extra_file.data, photos_dir, Today).ok
              alone == SyncResult[last'.got[1], NoExtraFile, photos_dir]
              stored == db'["missionaries"].val
          IN /\ (loaded /\ last'.failed = "none") =>
                  \A j \in 1..Len(extra_file.data) :
                    \E i \in 1..Len(stored) :
                      BuiltFrom(stored[i], extra_file.data[j])
             /\ (extra_file.exists /\ ~loaded) =>
                  /\ (last'.failed = "none") = alone.ok
                  /\ alone.ok =>
                       /\ Len(stored) = Len(alone.val)
                       /\ \A i \in 1..Len(stored) :
                            stored[i] = RefreshPhotoOf(alone.val[i], photos_dir)
                       /\ "refresh_error" \notin DOMAIN db'
                       /\ db'["last_refresh"] = DatetimeVal(now)
    ]_vars

\* A full sync has succeeded although a record of the extra-records file
\* does not normalize: the roster holds the fetched records only.
C19_Witness ==
  /\ extra_file = ExtraFile(<<PartTime, BadStartDate>>)
  /\ last.due = "yes"
  /\ last.failed = "none"
  /\ last.got = <<Ok(<<YoungElder, Released>>)>>
  /\ "refresh_error" \notin DOMAIN db
  /\ "missionaries" \in DOMAIN db
  /\ db["missionaries"].type = "list"
  /\ Len(db["missionaries"].val) = 1
  /\ "last_refresh" \in DOMAIN db
  /\ db["last_refresh"] = DatetimeVal(now)

\* C20. Photo paths are recomputed on every refresh cycle: when a
\* refresh() call returns, due or not and whatever the fetch yielded, every
\* stored record's image_path is what the photo directory now holds for
\* its id.
C20_PhotosRecomputedEveryCycle ==
  [][ \A p \in Tasks :
        (/\ Completes(p) \/ (pc' = pc /\ RefreshStart(p))
         /\ last'.result = "returned"
         /\ "missionaries" \in DOMAIN db'
         /\ db'["missionaries"].type = "list") =>
          \A i \in 1..Len(db'["missionaries"].val) :
            db'["missionaries"].val[i].image_path
              = _find_photo(photos_dir, db'["missionaries"].val[i].id)
    ]_vars

\* ------------------------------------------- photo refresh: the claims
\* The photo URL the rule gives for a stored record.
UrlAsSpecified(r) ==
  IF r.image_path # <<>>
    THEN <<"/", "p", "h", "o", "t", "o", "s", "/">> \o r.image_path
  ELSE IF r.couple THEN CouplePng
  ELSE IF r.gender = "FEMALE" THEN SisterPng
  ELSE ElderPng

\* C21. After any photo refresh (the latest refresh() call has returned,
\* due or not, with nothing raised), every stored record's photo_url follows
\* from its other fields: '/photos/' + image_path when image_path is not
\* empty; else the couple placeholder for a couple; else the sister
\* placeholder for gender FEMALE; else the elder placeholder. A placeholder
\* is used exactly when image_path is empty.
C21_PhotoUrlRule ==
  (/\ last.result = "returned"
   /\ last.failed = "none"
   /\ "missionaries" \in DOMAIN db
   /\ db["missionaries"].type = "list") =>
    \A i \in 1..Len(db["missionaries"].val) :
      LET r == db["missionaries"].val[i] IN
      /\ r.photo_url = UrlAsSpecified(r)
      /\ (r.photo_url \in {CouplePng, SisterPng, ElderPng})
           <=> (r.image_path = <<>>)

\* A photo refresh has run over a couple without a photo and a single
\* missionary with one.
C21_Witness ==
  /\ last.result = "returned"
  /\ last.failed = "none"
  /\ "missionaries" \in DOMAIN db
  /\ db["missionaries"].type = "list"
  /\ \E i, j \in 1..Len(db["missionaries"].val) :
       /\ db["missionaries"].val[i].couple
       /\ db["missionaries"].val[i].photo_url = CouplePng
       /\ ~db["missionaries"].val[j].couple
       /\ db["missionaries"].val[j].photo_url = PhotosPrefix \o Photo1

\* C22. Idempotent photo-only refresh: once a not-due refresh() call has
\* returned, a further photo refresh over the same photo directory leaves
\* the store as that call left it, image_path and photo_url of every
\* record included; so does every later not-due call that finds the store
\* in that state.
C22_PhotoRefreshIdempotent ==
  [][ \A p \in Tasks :
        (last'.due = "no" /\ last'.result = "returned" /\ RefreshStart(p)) =>
          /\ _photo_refresh(db', photos_dir, FALSE) = Ok(db')
          /\ (last.due = "no" /\ last.result = "returned"
              /\ _photo_refresh(db, photos_dir, FALSE) = Ok(db)) => db' = db
    ]_vars

\* A not-due call has returned over a roster that has a photo for one
\* record and none for the other; a further call finds nothing to change.
C22_Witness ==
  /\ last.due = "no"
  /\ last.result = "returned"
  /\ "missionaries" \in DOMAIN db
  /\ db["missionaries"].type = "list"
  /\ photos_dir # <<>>
  /\ _photo_refresh(db, photos_dir, FALSE) = Ok(db)
  /\ \E i, j \in 1..Len(db["missionaries"].val) :
       /\ db["missionaries"].val[i].image_path # <<>>
       /\ db["missionaries"].val[j].image_path = <<>>

\* C23. A photo-only refresh changes nothing in the stored list but
\* image_path and photo_url: the list keeps its length and its order, and
\* every record its id, name, sort_name, gender, couple, senior, mission,
\* dates_serving and home_unit.
C23_PhotoRefreshFrame ==
  [][ \A p \in Tasks :
        (last'.due = "no" /\ last'.result = "returned" /\ RefreshStart(p)) =>
          LET old == DbGet(db, "missionaries", ListVal(<<>>)).val
              new == db'["missionaries"].val
          IN /\ Len(new) = Len(old)
             /\ \A i \in 1..Len(old) :
                  /\ new[i].id = old[i].id
                  /\ new[i].name = old[i].name
                  /\ new[i].sort_name = old[i].sort_name
                  /\ new[i].gender = old[i].gender
                  /\ new[i].couple = old[i].couple
                  /\ new[i].senior = old[i].senior
                  /\ new[i].mission = old[i].mission
                  /\ new[i].dates_serving = old[i].dates_serving
                  /\ new[i].home_unit = old[i].home_unit
    ]_vars

\* A photo-only refresh has run over a roster of two after the photos
\* were removed: both records are there, with placeholders.
C23_Witness ==
  /\ last.due = "no"
  /\ last.result = "returned"
  /\ photos_dir = <<>>
  /\ "missionaries" \in DOMAIN db
  /\ db["missionaries"].type = "list"
  /\ Len(db["missionaries"].val) = 2
  /\ db["missionaries"].val[1].id # db["missionaries"].val[2].id
  /\ \A i \in 1..2 : db["missionaries"].val[i].image_path = <<>>

\* A list of records in ascending order of sort_name.
AscendingBySortName(lst) ==
  \A i \in 1..(Len(lst) - 1) : ~StrLess(lst[i + 1].sort_name, lst[i].sort_name)

\* C24. Sorted roster: the list a successful full sync stores is in
\* ascending order of sort_name, a merged couple at the place of the
\* sort_name it retains, and a photo-only cycle keeps the order; so from
\* an empty store, or from a roster an earlier run wrote, every stored
\* list is sorted by sort_name.
C24_SortedRoster ==
  /\ []( ("missionaries" \in DOMAIN db /\ db["missionaries"].type = "list")
           => AscendingBySortName(db["missionaries"].val) )
  /\ [][ \A p \in Tasks :
           /\ (Completes(p) /\ last'.failed = "none") =>
                AscendingBySortName(db'["missionaries"].val)
           /\ (last'.due = "no" /\ last'.result = "returned" /\ RefreshStart(p)) =>
                [i \in 1..Len(db'["missionaries"].val) |->
                   db'["missionaries"].val[i].sort_name]
                = [i \in 1..Len(db'["missionaries"].val) |->
                     DbGet(db, "missionaries", ListVal(<<>>)).val[i].sort_name]
       ]_vars

\* A full sync over an empty store has stored the young elder before the
\* couple whose sister was fetched first, and a photo-only cycle has run
\* over that list.
C24_Witness ==
  /\ last.due = "no"
  /\ last.result = "returned"
  /\ "missionaries" \in DOMAIN db
  /\ db["missionaries"].type = "list"
  /\ Len(db["missionaries"].val) = 2
  /\ db["missionaries"].val[1].sort_name = <<"B", ",", " ", "A">>
  /\ db["missionaries"].val[2].sort_name = <<"S", ",", " ", "J">>
  /\ db["missionaries"].val[2].couple

\* C25. Atomic swap: every list a refresh cycle leaves under 'missionaries'
\* is a complete roster, with image_path and photo_url computed for every
\* record: a reader never finds a list whose photo_url is not yet
\* computed.
C25_AtomicSwap ==
  ("missionaries" \in DOMAIN db /\ db["missionaries"].type = "list") =>
    \A i \in 1..Len(db["missionaries"].val) :
      /\ db["missionaries"].val[i].photo_url # <<>>
      /\ db["missionaries"].val[i].photo_url = UrlAsSpecified(db["missionaries"].val[i])

\* ----------------------------------------------- concurrency: the claims
\* The store a single successful refresh() leaves when it runs alone on an
\* empty store at time t and its fetch yields f.
AloneOnEmptyStore(f, t) ==
  [k \in {"missionaries", "last_refresh"} |->
     IF k = "missionaries"
     THEN ListVal([i \in 1..Len(SyncResult[f, extra_file, photos_dir].val) |->
                     RefreshPhotoOf(SyncResult[f, extra_file, photos_dir].val[i],
                                    photos_dir)] \o <<>>)
     ELSE DatetimeVal(t)] @@ <<>>

\* C26. Overlapping refreshes: a refresh() call that finds the cache due
\* goes into the fetch whether or not other calls are in theirs, so
\* several can be suspended at once, and each persists when its fetch
\* completes. A call that completes with success leaves the store exactly
\* as a refresh() running alone with that call's fetch would: the roster
\* is built from its own fetch and the extra file only, never mixed with
\* the result of another call. A call that completes with failure changes
\* 'refresh_error' only.
C26_OverlappingRefreshes ==
  [][ \A p \in Tasks :
        /\ (pc[p] = "idle" /\ _needs_refresh(db, now) = Ok(TRUE) /\ RefreshStart(p)) =>
             /\ pc'[p] = "fetch"
             /\ \A q \in Tasks \ {p} : pc'[q] = pc[q]
        /\ (Completes(p) /\ last'.failed = "none") =>
             /\ last'.got # <<>>
             /\ last'.got[1].ok
             /\ db' = AloneOnEmptyStore(last'.got[1], now)
             /\ \A i \in 1..Len(db'["missionaries"].val) :
                  \E j \in 1..Len(last'.got[1].val \o extra_file.data) :
                    BuiltFrom(db'["missionaries"].val[i],
                              (last'.got[1].val \o extra_file.data)[j])
             /\ \A q \in Tasks \ {p} : pc'[q] = pc[q]
        /\ (Completes(p) /\ last'.failed \in {"fetch", "normalize", "merge"}) =>
             /\ KeyUnchanged("missionaries")
             /\ KeyUnchanged("last_refresh")
    ]_vars

\* Two calls were in the fetch at once: one has stored its roster and the
\* time stamp of this minute, the other has failed after it and set the
\* error, while a third call would find the cache not due.
C26_Witness ==
  /\ last.due = "yes"
  /\ last.failed = "fetch"
  /\ {"missionaries", "last_refresh", "refresh_error"} \subseteq DOMAIN db
  /\ db["last_refresh"] = DatetimeVal(now)
  /\ db["missionaries"].type = "list"
  /\ db["missionaries"] # OldRoster
  /\ _needs_refresh(db, now) = Ok(FALSE)

\* C26 as stated: overlapping calls are not excluded, the stored roster is
\* wholly the result of the call that wrote it last, and whenever a call
\* completes the store is one that a single refresh() could have produced:
\* running alone on the store that call finds, or on an empty store.
C26_EndsAsOneRefresh ==
  [][ \A p \in Tasks :
        /\ (pc[p] = "idle" /\ _needs_refresh(db, now) = Ok(TRUE) /\ RefreshStart(p)) =>
             pc'[p] = "fetch"
        /\ (Completes(p) /\ last'.failed = "none") =>
             db' = AloneOnEmptyStore(last'.got[1], now)
        /\ Completes(p) =>
             \/ _needs_refresh(db, now) = Ok(TRUE)
             \/ last'.failed = "none"
             \/ _photo_refresh(db, photos_dir, FALSE) = Ok(db')
    ]_vars

\* ------------------------------------------------ normalizer: the claims
\* Whole days from the birth date of a raw record to today.
DaysSinceBirth(raw) ==
  OrdinalOf(Today) - OrdinalOf(StrptimeYmd(raw.birthDate[1]).val)

\* C29. Senior flag: a raw record's explicit senior flag is the normalized
\* record's senior; only without a flag is senior computed from the birth
\* date, true exactly when at least 41 * 365 days have passed since; with
\* neither flag nor birth date senior is false.
C29_SeniorFlag ==
  (given.fn = "create" /\ answer.run /\ answer.result.ok) =>
    LET raw == given.missionary_data
        born == raw.birthDate # <<>> /\ raw.birthDate[1] # <<>>
    IN /\ raw.seniorMissionary # <<>> =>
            answer.result.val.senior = raw.seniorMissionary[1]
       /\ (raw.seniorMissionary = <<>> /\ born) =>
            (answer.result.val.senior <=> DaysSinceBirth(raw) >= 41 * 365)
       /\ (raw.seniorMissionary = <<>> /\ ~born) =>
            answer.result.val.senior = FALSE

C27_ReadBeforeRefresh ==
  /\ [][ \A p \in Tasks :
           /\ (pc[p] = "idle" /\ pc'[p] = "queued") =>
                /\ db' = db
                /\ last' = last
                /\ lr'.called
                /\ lr'.result = list_range(db, lr'.offset, lr'.limit, "none")
                /\ lr'.result.ok
                /\ shown'.called
                /\ shown'.result = get_refresh_error(db)
           /\ (pc[p] = "queued" /\ pc'[p] # "queued") =>
                /\ lr.called /\ shown.called
                /\ lr' = lr
                /\ shown' = shown
           /\ (pc[p] # "fetch" /\ pc'[p] = "fetch") => pc[p] = "queued"
           /\ (last' # last \/ db' # db) => (lr' = lr /\ shown' = shown)
       ]_vars
  /\ [](\A p \in Tasks : pc[p] = "idle" => ENABLED Slides(p))

\* A page has been built from the store of an earlier run, error
\* included, while the refresh() of another request is in its fetch; the
\* page's own refresh() has not started.
C27_Witness ==
  /\ \E p, q \in Tasks : pc[p] = "queued" /\ pc[q] = "fetch"
  /\ lr.called
  /\ lr.result.ok
  /\ Len(lr.result.val[1]) = 2
  /\ shown.called
  /\ shown.result # ""
  /\ db["missionaries"] = OldRoster

\* ------------------------------------------------- retries: the claims
\* A due cycle has failed and left its error.
FailedCycle ==
  /\ last.due = "yes"
  /\ last.result = "returned"
  /\ last.failed # "none"
  /\ "refresh_error" \in DOMAIN db

\* A due cycle has succeeded: no error is stored, and the roster and the
\* time stamp are those of that cycle.
SucceededCycle ==
  /\ last.due = "yes"
  /\ last.result = "returned"
  /\ last.failed = "none"
  /\ "refresh_error" \notin DOMAIN db
  /\ db = AloneOnEmptyStore(last.got[1], db["last_refresh"].val)

\* C28 as stated: one fetch per call; after a failed due cycle the cache
\* is due, and the next refresh() call goes into the fetch; and under
\* fairness a failed cycle is followed by a successful one.
C28_RetryAfterFailure ==
  /\ [][ \A p \in Tasks :
           (Completes(p) /\ last'.failed # "none") =>
             /\ pc'[p] = "idle"
             /\ _needs_refresh(db', now') = Ok(TRUE)
       ]_vars
  /\ (FailedCycle /\ _needs_refresh(db, MaxTime) = Ok(TRUE)) ~> SucceededCycle

\* C28. Retry after failure: a refresh() call makes at most one fetch and
\* then returns; a failed due cycle leaves 'last_refresh' as it was, so a
\* cache that is due when the call fails remains due, and a refresh() call
\* that finds it due goes into the fetch again; and when the roster source
\* does not fail for ever while refresh() keeps being called and time
\* passes, a failed cycle is followed by a cycle that clears
\* 'refresh_error', advances 'last_refresh' and replaces the roster (as
\* long as the clock of the model can reach the minute at which the cache
\* is due).
C28_RetryWhenStillDue ==
  /\ [][ \A p \in Tasks :
           /\ Suspends(p) => (last'.fetched /\ db' = db)
           /\ (Completes(p) /\ last'.failed # "none") =>
                /\ pc'[p] = "idle"
                /\ last'.result = "returned"
                /\ KeyUnchanged("last_refresh")
                /\ _needs_refresh(db, now) = Ok(TRUE) =>
                     _needs_refresh(db', now') = Ok(TRUE)
           /\ (FailedCycle /\ _needs_refresh(db, now) = Ok(TRUE)
               /\ RefreshStart(p)) => pc'[p] = "fetch"
       ]_vars
  /\ (FailedCycle /\ _needs_refresh(db, MaxTime) = Ok(TRUE)) ~> SucceededCycle

\* A due cycle has failed over the roster of an earlier run, and the cache
\* is still due.
C28_Witness ==
  /\ FailedCycle
  /\ last.failed = "fetch"
  /\ "missionaries" \in DOMAIN db
  /\ db["missionaries"] = OldRoster
  /\ _needs_refresh(db, now) = Ok(TRUE)
  /\ \A p \in Tasks : pc[p] = "idle"

\* ------------------------------------------------- photo-id boundary
\* The file name is '<prefix>-<X>.<extension>': a hyphen, the decimal
\* digits of X and a dot follow each other somewhere in it.
NamedFor(filename, X) ==
  \E i \in 1..Len(filename) :
    /\ filename[i] = "-"
    /\ i + Len(IntToStr(X)) + 1 <= Len(filename)
    /\ \A k \in 1..Len(IntToStr(X)) : filename[i + k] = IntToStr(X)[k]
    /\ filename[i + Len(IntToStr(X)) + 1] = "."

\* C31. Photo-id boundary: the Photo Locator returns a file name for
\* person id X only when a file named '<prefix>-<X>.<extension>' is in the
\* directory, and then it returns such a file of the directory; it returns
\* the empty string when no file of the directory is so named: when X is
\* only a substring or a prefix of a longer id in the name (id 123 against
\* a file for id 123456789), when the name has no '-<X>.' part, and when
\* the directory is empty.
C31_PhotoIdBoundary ==
  (answer.run /\ given.fn = "find") =>
    /\ answer.result # <<>> =>
         /\ \E i \in 1..Len(given.dir) : given.dir[i] = answer.result
         /\ NamedFor(answer.result, given.missionary_id)
    /\ answer.result = <<>> <=>
         \A i \in 1..Len(given.dir) :
           ~NamedFor(given.dir[i], given.missionary_id)
    /\ (given.missionary_id = 123
        /\ \A i \in 1..Len(given.dir) :
             given.dir[i] \in { <<"t", "-", "1", "2", "3", "4", "5", "6", "7",
                                  "8", "9", ".", "j", "p", "g">>,
                                <<"t", "-", "1", "2", "3", "4", ".", "j", "p", "g">>,
                                <<"1", "2", "3", ".", "j", "p", "g">>,
                                <<"t", "-", "1", "2", "3">> })
         => answer.result = <<>>

\* The locator was asked for id 123 in a directory that holds only the
\* photo of id 123456789, and found nothing.
C31_Witness ==
  /\ answer.run
  /\ given.fn = "find"
  /\ given.missionary_id = 123
  /\ given.dir = << <<"t", "-", "1", "2", "3", "4", "5", "6", "7", "8", "9",
                      ".", "j", "p", "g">> >>
  /\ answer.result = <<>>

\* ------------------------------------- the token gate and clear: the claims
\* A page request has been answered in this step.
PageAnswered ==
  \/ resp' # resp
  \/ \E p \in Tasks : pc[p] = "idle" /\ pc'[p] = "queued"

C36_Clear ==
  /\ DOMAIN clear(db) = (DOMAIN db) \ {"missionaries", "last_refresh", "refresh_error"}
  /\ \A k \in DOMAIN clear(db) : clear(db)[k] = db[k]
  /\ clear(clear(db)) = clear(db)
  /\ \A offset \in {0, MaxOffset}, limit \in {1, PAGE_SIZE}, f \in Filters :
       list_range(clear(db), offset, limit, f) = Ok(<< <<>>, 0 >>)
  /\ get_refresh_error(clear(db)) = ""
  /\ _needs_refresh(clear(db), now) = Ok(TRUE)
  /\ last.result = "cleared" =>
       /\ db = clear(db)
       /\ \A p \in Tasks : pc[p] = "queued" =>
            ENABLED (RefreshStart(p) /\ pc'[p] = "fetch")

\* A board with a token has shown the two missionaries of the roster, and
\* then clear ran: the roster, the time stamp and the error are gone and
\* the token is still stored.
C36_Witness ==
  /\ last.result = "cleared"
  /\ DOMAIN db = {"token", "client_id", "client_secret"}
  /\ lr.called
  /\ Len(lr.result.val[1]) = 2

\* ------------------------------------------ a stored error and the due cache
\* An error is stored while the cache is not due.
ErrorWhileFresh ==
  /\ "refresh_error" \in DOMAIN db
  /\ _needs_refresh(db, now) = Ok(FALSE)

\* C37 as stated: whenever 'refresh_error' is in the store the cache is
\* due, in every reachable state, overlapping refresh() calls included.
C37_ErrorMeansDue ==
  "refresh_error" \in DOMAIN db => _needs_refresh(db, now) = Ok(TRUE)

\* C37. A failing refresh() stores 'refresh_error' and leaves 'last_refresh'
\* as it was, so a cache that is due when the call fails stays due, and a
\* refresh() call that finds an error with a due cache goes into the fetch.
\* An error comes to stand over a cache that is not due in one way only:
\* a call fails when the cache is no longer due and no error is stored,
\* that is, after another call, overlapping with it, has succeeded and
\* stamped the time while this one was suspended in its fetch. From then
\* on, until the interval has passed, refresh() calls take the photo-only
\* path and the error stays.
C37_ErrorAndDue ==
  [][ /\ (ErrorWhileFresh' /\ ~ErrorWhileFresh) =>
           /\ \E p \in Tasks : Completes(p)
           /\ last'.due = "yes"
           /\ last'.result = "returned"
           /\ last'.failed # "none"
           /\ _needs_refresh(db, now) = Ok(FALSE)
           /\ "refresh_error" \notin DOMAIN db
           /\ KeyUnchanged("last_refresh")
      /\ \A p \in Tasks :
           /\ (Completes(p) /\ last'.failed # "none") =>
                /\ "refresh_error" \in DOMAIN db'
                /\ KeyUnchanged("last_refresh")
                /\ _needs_refresh(db, now) = Ok(TRUE) =>
                     _needs_refresh(db', now') = Ok(TRUE)
           /\ ("refresh_error" \in DOMAIN db /\ pc[p] = "idle"
               /\ pc'[p] # "idle") =>
                /\ _needs_refresh(db, now) = Ok(TRUE)
                /\ pc'[p] = "fetch"
                /\ last'.fetched
      /\ ("refresh_error" \in DOMAIN db /\ pc' = pc /\ last' # last) =>
           /\ ErrorWhileFresh
           /\ last'.due = "no"
           /\ ~last'.fetched
           /\ ErrorWhileFresh'
    ]_vars

\* Two calls overlapped, one succeeded and the other failed; the error
\* stands, the cache is not due, and a later refresh() has taken the
\* photo-only path.
C37_Witness ==
  /\ ErrorWhileFresh
  /\ last.due = "no"
  /\ last.result = "returned"
  /\ \A p \in Tasks : pc[p] = "idle"

\* --------------------------------------- clear and a suspended refresh
\* The three keys of the cache are absent from the store d.
Cleared(d) == DOMAIN d \cap {"missionaries", "last_refresh", "refresh_error"} = {}

\* C39 as stated: a refresh() that was suspended in its fetch when clear
\* ran writes none of the three keys when it completes.
C39_StaysCleared ==
  [][ \A p \in Tasks :
        (last.result = "cleared" /\ Completes(p)) => Cleared(db')
    ]_vars

\* C39. Missionaries.clear removes the three keys and cancels nothing: a
\* refresh() suspended in its fetch stays suspended. After a clear the keys
\* stay absent until a refresh() completes (or is cut off after a write),
\* whether it started before the clear or after it: a refresh() that was
\* suspended when clear ran writes, on success, the roster of its fetch
\* with the time of its completion and no error, exactly as a refresh()
\* alone on an empty store would, and on failure the error of its fetch
\* and nothing else.
C39_ClearCancelsNothing ==
  /\ [](last.result = "cleared" => Cleared(db))
  /\ [][ /\ (last'.result = "cleared" /\ last' # last) => pc' = pc
         /\ (Cleared(db) /\ ~Cleared(db')) =>
              \E p \in Tasks : pc[p] = "fetch" /\ pc'[p] = "idle"
         /\ \A p \in Tasks :
              (last.result = "cleared" /\ Completes(p)
               /\ last'.result = "returned") =>
                /\ ~Cleared(db')
                /\ IF last'.failed = "none"
                   THEN db' = AloneOnEmptyStore(last'.got[1], now)
                   ELSE /\ "refresh_error" \in DOMAIN db'
                        /\ "last_refresh" \notin DOMAIN db'
                        /\ "missionaries" \in DOMAIN db' <=> last'.failed = "photo"
       ]_vars

\* clear has just run on a store with a roster while a refresh() is
\* suspended in its fetch.
C39_Witness ==
  /\ last.result = "cleared"
  /\ Cleared(db)
  /\ \E p \in Tasks : pc[p] = "fetch"

\* ------------------------------------------- the slideshow cannot get stuck
\* The offset reached from offset by following next_offset until it is 0,
\* for at most n requests.
RECURSIVE Follow(_, _, _, _)
Follow(d, offset, limit, n) ==
  IF n = 0 \/ ~list_range(d, offset, limit, "none").ok THEN offset
  ELSE IF list_range(d, offset, limit, "none").val[2] = 0 THEN 0
  ELSE Follow(d, list_range(d, offset, limit, "none").val[2], limit, n - 1)

\* C38. The slideshow cannot get stuck: for a stored list (or none), any
\* offset >= 0, also at or beyond the length of the list as after the
\* roster shrank, and any limit >= 1, list_range does not raise; an offset
\* at or beyond the length yields an empty slice with next_offset 0; every
\* next_offset is 0 or lies above the offset and below the length; and
\* following next_offset from any offset >= 0 reaches offset 0 within as
\* many requests as the list is long, plus one.
C38_NeverStuck ==
  ("missionaries" \in DOMAIN db => db["missionaries"].type = "list") =>
    /\ (lr.called /\ lr.offset >= 0 /\ lr.limit >= 1) =>
         /\ lr.result.ok
         /\ Len(lr.result.val[1]) <= lr.limit
         /\ \/ lr.result.val[2] = 0
            \/ /\ lr.result.val[2] > lr.offset
               /\ lr.result.val[2] < Len(Filtered(DbGet(db, "missionaries", ListVal(<<>>)).val,
                                                  lr.filter_))
         /\ lr.offset >= Len(Filtered(DbGet(db, "missionaries", ListVal(<<>>)).val,
                                      lr.filter_)) =>
              lr.result.val = << <<>>, 0 >>
    /\ \A offset \in 0..(MaxLen + 1), limit \in 1..MaxLimit :
         Follow(db, offset, limit,
                Len(DbGet(db, "missionaries", ListVal(<<>>)).val) + 1) = 0

\* A page was requested at offset 3 of a roster that has shrunk to two
\* records: the slice is empty and the slideshow starts again at 0.
C38_Witness ==
  /\ "missionaries" \in DOMAIN db
  /\ db["missionaries"].type = "list"
  /\ Len(db["missionaries"].val) = 2
  /\ lr.called
  /\ lr.offset = 3
  /\ lr.limit = 2
  /\ lr.filter_ = "none"
  /\ lr.result = Ok(<< <<>>, 0 >>)

\* ------------------------------------- login, logout, setup: the claims
\* The request that this step has answered was sent to handler h.
Answered(h) ==
  /\ resp'.called
  /\ resp'.handler = h
  /\ (resp' # resp \/ db' # db \/ session' # session)

\* The keys that the setup handler writes.
SetupKeys ==
  {"client_id", "client_secret", "state_secret", "setup_error",
   "setup_error_description"}

\* C32. Login gate: the body of the setup handler runs, and so the keys
\* client_id, client_secret, state_secret, setup_error and
\* setup_error_description are written, only when the session's user is
\* 'admin'; for every other session a GET or POST to setup is answered
\* with a 303 redirect to the login page and leaves the store and the
\* session unchanged. A logout leaves the session without a user, and the
\* session gets the user 'admin' again only by a POST to login that is
\* answered with the redirect to setup.
C32_LoginGate ==
  /\ [](session \in {<<>>, <<"admin">>})
  /\ [][ /\ Answered("setup") =>
              IF session # <<"admin">>
              THEN /\ resp'.status = 303
                   /\ resp'.target = "login"
                   /\ db' = db
                   /\ session' = session
              ELSE /\ resp'.target # "login"
                   /\ session' = session
         /\ (\E k \in SetupKeys : ~KeyUnchanged(k)) =>
              /\ session = <<"admin">>
              /\ resp'.handler = "setup"
         /\ Answered("logout") =>
              /\ session' = <<>>
              /\ resp'.status = 303
              /\ resp'.target = "login"
              /\ db' = db
         /\ (session # <<"admin">> /\ session' = <<"admin">>) =>
              /\ resp'.handler = "login"
              /\ resp'.method = "POST"
              /\ resp'.status = 303
              /\ resp'.target = "setup"
       ]_vars

\* The administrator had logged in and stored the client id, then logged
\* out; the next request to setup was redirected to the login page.
C32_Witness ==
  /\ session = <<>>
  /\ "client_id" \in DOMAIN db
  /\ resp.called
  /\ resp.handler = "setup"
  /\ resp.method = "POST"
  /\ resp.status = 303
  /\ resp.target = "login"

\* The text of a field as sent, "" when it was not sent.
Sent(form, k) == IF form[k] = <<>> THEN <<>> ELSE form[k][1]

\* C33 as stated: the user becomes 'admin' only with the username exactly
\* 'admin' and a password that verifies against the stored hash, and a
\* login that fails leaves the session without a user.
C33_ExactCredentials ==
  [][ Answered("login") =>
        /\ (session # <<"admin">> /\ session' = <<"admin">>) =>
             /\ resp'.method = "POST"
             /\ "admin_password_hash" \in DOMAIN db
             /\ Sent(resp'.form, "username") = <<"a", "d", "m", "i", "n">>
             /\ Sent(resp'.form, "password") = db["admin_password_hash"].val.password
        /\ (resp'.method = "POST" /\ resp'.status = 200) => session' = <<>>
    ]_vars

\* C33. The session's user becomes 'admin' only through a POST to login
\* made while an admin password hash is stored, with a username that is
\* 'admin' and a password that verifies against the stored hash once the
\* whitespace around each has been stripped. A POST to login, with a hash
\* stored, whose stripped username or password is empty, or whose
\* username is another one, or whose password does not verify, re-renders
\* the login page with an error and leaves the session and the store as
\* they were (a session without a user stays without one). A wrong
\* username and a wrong password produce the same message, 'Invalid
\* username or password.', and nothing else.
C33_StrippedCredentials ==
  [][ /\ (session # <<"admin">> /\ session' = <<"admin">>) =>
           /\ Answered("login")
           /\ resp'.method = "POST"
           /\ "admin_password_hash" \in DOMAIN db
           /\ Strip(Sent(resp'.form, "username")) = <<"a", "d", "m", "i", "n">>
           /\ Strip(Sent(resp'.form, "password")) = db["admin_password_hash"].val.password
      /\ (Answered("login") /\ resp'.method = "POST"
          /\ "admin_password_hash" \in DOMAIN db
          /\ \/ Strip(Sent(resp'.form, "username")) # <<"a", "d", "m", "i", "n">>
             \/ Strip(Sent(resp'.form, "password")) # db["admin_password_hash"].val.password) =>
           /\ resp'.status = 200
           /\ resp'.target = "login.html"
           /\ resp'.context # {}
           /\ session' = session
           /\ db' = db
           /\ (Strip(Sent(resp'.form, "username")) # <<>>
               /\ Strip(Sent(resp'.form, "password")) # <<>>) =>
                resp'.context = {<<"login_error", "Invalid username or password.">>}
    ]_vars

\* With the hash of "f" stored, a POST with the right password and the
\* username "h" was answered with the login page and the common message;
\* the session has no user.
C33_Witness ==
  /\ "admin_password_hash" \in DOMAIN db
  /\ db["admin_password_hash"].val.password = <<"f">>
  /\ resp.called
  /\ resp.handler = "login"
  /\ resp.method = "POST"
  /\ resp.form.username = << <<"h">> >>
  /\ resp.form.password = << <<"f">> >>
  /\ resp.status = 200
  /\ resp.context = {<<"login_error", "Invalid username or password.">>}
  /\ session = <<>>

\* C34 as stated: while no hash is stored, a POST to login stores a hash
\* iff the password as sent is non-empty and equals its confirmation.
C34_RawPasswords ==
  [][ (Answered("login") /\ resp'.method = "POST"
       /\ "admin_password_hash" \notin DOMAIN db) =>
        ("admin_password_hash" \in DOMAIN db' <=>
           /\ Sent(resp'.form, "password") # <<>>
           /\ Sent(resp'.form, "password") = Sent(resp'.form, "password_conf"))
    ]_vars

\* C34. Admin password establishment: while no admin password hash is
\* stored, a POST to login stores a hash iff the password, stripped of the
\* whitespace around it, is non-empty and equals the stripped
\* confirmation; the hash is that of the stripped password, nothing else
\* in the store changes, and the request never logs the user in: the
\* session has no user before it and none after it. Once a hash is stored
\* it stays stored and no POST to login takes the establishment path
\* again; the stored hash changes only by a rehash of the same password,
\* from older parameters to the current ones, in a successful login.
C34_Establishment ==
  /\ [](session = <<"admin">> => "admin_password_hash" \in DOMAIN db)
  /\ [][ /\ (Answered("login") /\ resp'.method = "POST"
             /\ "admin_password_hash" \notin DOMAIN db) =>
              /\ "admin_password_hash" \in DOMAIN db' <=>
                   /\ Strip(Sent(resp'.form, "password")) # <<>>
                   /\ Strip(Sent(resp'.form, "password")) =
                        Strip(Sent(resp'.form, "password_conf"))
              /\ "admin_password_hash" \in DOMAIN db' =>
                   /\ db' = DbSet(db, "admin_password_hash",
                                  StrVal([password |-> Strip(Sent(resp'.form, "password")),
                                          params |-> "current"]))
                   /\ <<"success_message",
                        "Admin password set successfully. You can now log in.">>
                        \in resp'.context
              /\ "admin_password_hash" \notin DOMAIN db' => db' = db
              /\ session = <<>>
              /\ session' = <<>>
              /\ resp'.status = 200
              /\ resp'.target = "login.html"
         /\ "admin_password_hash" \in DOMAIN db =>
              /\ "admin_password_hash" \in DOMAIN db'
              /\ Answered("login") =>
                   \A c \in resp'.context :
                     c[1] \notin {"success_message", "password_conf_error"}
              /\ db'["admin_password_hash"] # db["admin_password_hash"] =>
                   /\ Answered("login")
                   /\ resp'.method = "POST"
                   /\ resp'.status = 303
                   /\ session' = <<"admin">>
                   /\ db["admin_password_hash"].val.params = "old"
                   /\ db'["admin_password_hash"].val =
                        [password |-> db["admin_password_hash"].val.password,
                         params |-> "current"]
                   /\ Strip(Sent(resp'.form, "password")) =
                        db["admin_password_hash"].val.password
       ]_vars

\* The first POST to login sent the password "f " and the confirmation
\* "f": the hash of "f" is stored and nobody is logged in.
C34_Witness ==
  /\ "admin_password_hash" \in DOMAIN db
  /\ db["admin_password_hash"].val = [password |-> <<"f">>, params |-> "current"]
  /\ resp.called
  /\ resp.handler = "login"
  /\ resp.method = "POST"
  /\ resp.form.password = << <<"f", " ">> >>
  /\ resp.form.password_conf = << <<"f">> >>
  /\ <<"success_message", "Admin password set successfully. You can now log in.">>
       \in resp.context
  /\ session = <<>>

\* ------------------------------------------- the church Session: the claim
\* C40. Bounded login retries in the church Session: one get_json call
\* makes at most two GET requests and at most one login after a 401 (a
\* second GET only after a 401 and that login, and the status of the
\* second GET is raised or returned, not retried); every login loads the
\* user-info page at most 3 times, the first load plus reloads up to
\* max_retries, and raises RuntimeError when the third load fails too; and
\* _user is set after the call only if it was set before or a login of the
\* call ended with a successful user-info response.
C40_BoundedRetries ==
  (answer.run /\ given.fn = "get_json") =>
    /\ answer.result.gets <= 2
    /\ answer.result.relogins <= 1
    /\ answer.result.logins <= 2
    /\ answer.result.gets = 2 => (given.gets[1] = 401 /\ answer.result.relogins = 1)
    /\ answer.result.gets = 2 => (answer.result.ok <=> given.gets[2] < 400)
    /\ Len(answer.result.loads) = answer.result.logins
    /\ \A k \in 1..Len(answer.result.loads) :
         /\ answer.result.loads[k] \in 1..max_retries
         /\ \A i \in 1..(answer.result.loads[k] - 1) : given.scripts[k][i] # "ok"
         /\ given.scripts[k][answer.result.loads[k]] # "ok" =>
              /\ answer.result.loads[k] = max_retries
              /\ k = Len(answer.result.loads)
              /\ ~answer.result.ok
              /\ answer.result.kind = "RuntimeError"
    /\ (answer.result.user /\ ~given.user) =>
         \E k \in 1..Len(answer.result.loads) :
           given.scripts[k][answer.result.loads[k]] = "ok"

\* A call for a URL without a user: the login needed all three loads, the
\* first GET was answered 401, the login after it failed on its third
\* load, and RuntimeError was raised after one GET and two logins.
C40_Witness ==
  /\ answer.run
  /\ given.fn = "get_json"
  /\ given.url = "URL"
  /\ ~given.user
  /\ given.gets[1] = 401
  /\ answer.result.loads = <<3, 3>>
  /\ answer.result.gets = 1
  /\ answer.result.kind = "RuntimeError"
  /\ answer.result.user

====
